---- MODULE Spec2Model ----
(***************************************************************************)
(* Agent Arena: the Orchestrator's turn scheduler                          *)
(* (src/src/core/orchestrator.py) together with the parts of the Session   *)
(* Manager, the Worker Runtime and the Broadcaster it drives.              *)
(*                                                                         *)
(* One behaviour follows one human message: the send_message route         *)
(* persists it and schedules on_new_message, which builds the first Turn;  *)
(* execute_turn runs Phase A (must_reply), Phase B (may_reply) and then    *)
(* either recurses into a chained Turn or stops.  Every await of the       *)
(* coroutine is a step of the model; the invocations of one phase resolve  *)
(* one by one, in any order, each with an output, an exception or the      *)
(* per-turn timeout.  FairSpec is Spec with every await resumed.           *)
(*                                                                         *)
(* Four smaller specifications exercise the components the scheduler       *)
(* calls: MarkerSpec and MemorySpec run _process_memory_markers over       *)
(* reply contents (marker stripping; Memory Store and session summary),    *)
(* SearchSpec runs MemoryStore.search_memory over session files and        *)
(* queries, AdapterSpec runs the invoke of the three CLI adapters over     *)
(* the ways their subprocess can end.  Four more follow the same pattern:  *)
(* RuntimeSpec runs WorkerRuntime.invoke_agent for the agents of one phase *)
(* under the adapter's timeout and the per-turn timeout, BroadcasterSpec   *)
(* runs the WebSocketManager over sockets that come, fail and go,          *)
(* MentionSpec runs _parse_mentions over message texts, SessionSpec runs   *)
(* the SessionManager's tables under either setting of SQLite's            *)
(* foreign_keys pragma.                                                    *)
(* ChainSpec is the scheduler with one follow-up turn allowed and replies  *)
(* that may also name a group member, StoreSpec runs save_memory from two  *)
(* concurrent turn tasks, ContextSpec runs build_input over rosters and    *)
(* Registry contents.                                                      *)
(***************************************************************************)
EXTENDS Integers, Sequences, FiniteSets, TLC

\* ------------------------------------------------------------------ bounds
\* largest chain_depth_limit a group is configured with
MaxChainLimit == 1

\* ------------------------------------------------------------ environment
\* agent members of the group, in joined_at order
GroupAgents == <<"a1", "a2">>

\* agents the Registry knows; "x" is registered but is no member of the group
Registered == {"a1", "a2", "x"}

\* group ids a message can be posted to, and the ids that have a row in the
\* groups table: "gone" names a group that does not exist (never created, or
\* deleted)
GroupIds == {"g1", "gone"}

Groups == {"g1"}

\* the resolved mention lists on_new_message is called with
MentionInputs ==
    { <<>>, <<"@all">>, <<"a1">>, <<"a2", "a1">>, <<"a1", "a1">>, <<"nobody", "a2">>,
      <<"nobody">> }

\* the non-empty NEXT_MENTIONS arrays an agent reply may carry: the adapters
\* parse the JSON array of the marker and hand it on unfiltered
NextMentionChoices == { {"x"} }

\* ---------------------------------------------------------------- helpers
Range(s) == { s[i] : i \in DOMAIN s }

Take(s, n) == SubSeq(s, 1, IF n < Len(s) THEN n ELSE Len(s))

Perms(S) == { s \in [1..Cardinality(S) -> S] : Range(s) = S }

Max(a, b) == IF a >= b THEN a ELSE b

\* -------------------------------------------------- results of _invoke_one
Running ==
    [kind |-> "running", should_respond |-> TRUE, next_mentions |-> {}, meta |-> "none"]

Failure(k) ==
    [kind |-> k, should_respond |-> TRUE, next_mentions |-> {}, meta |-> "none"]

AgentOutput(sr, nm, meta) ==
    [kind |-> "output", should_respond |-> sr, next_mentions |-> nm, meta |-> meta]

\* what one invocation can resolve to: an exception raised out of invoke_agent
\* or build_input, the asyncio.wait_for timeout, or an AgentOutput (a plain
\* reply with execution_meta, a SKIP, an adapter error sentinel with
\* is_error, a reply carrying NEXT_MENTIONS and no execution_meta)
Outcomes ==
    { Failure("exception"), Failure("timeout"),
      AgentOutput(TRUE, {}, "ok"),
      AgentOutput(FALSE, {}, "none"),
      AgentOutput(TRUE, {}, "err") }
    \cup { AgentOutput(TRUE, nm, "none") : nm \in NextMentionChoices }

VARIABLES
    config,      \* the group's GroupConfig
    messages,    \* rows of the messages table, in insertion order
    events,      \* what the Broadcaster sent to the group, in order
    turns,       \* every Turn created so far; turns[i].turn_id = i
    cur,         \* turn_id of the Turn execute_turn is running (0: none)
    pc,          \* position of the on_new_message task
    pending,     \* arguments of the scheduled on_new_message call
    idx,         \* loop index of the zip(...) loop of the current phase
    raised_by    \* what made the task raise ("none" while it has not)

\* _process_memory_markers, the Memory Store and the session summary
VARIABLES
    output,          \* content of the AgentOutput being post-processed
    mem_pc,          \* position of the reply between adapter and messages table
    stored_content,  \* content column of the persisted agent message
    store,           \* entries of the session's JSON file, in insertion order
    summary,         \* the session's summary file
    daily_log        \* entries appended to the agent's daily log

\* MemoryStore.search_memory
VARIABLES
    query,       \* the query string, as its words
    top_k,       \* the top_k argument
    found        \* the list search_memory returned

\* the CLI adapters
VARIABLES
    proc,        \* the adapter invoked and how its subprocess ended
    result       \* what invoke returned or raised

\* WorkerRuntime.invoke_agent under the timeout of _invoke_one
VARIABLES
    profiles,    \* per agent: cli_type of its profile, whether its workspace exists
    rt_pc,       \* per agent: position of its invoke_agent coroutine
    child,       \* per agent: the subprocess its adapter started
    statuses,    \* per agent: the agent_status values _emit_status sent, in order
    resolution   \* per agent: how the await in _invoke_one resolved

\* WebSocketManager
VARIABLES
    connections,     \* the dict group_id -> list of sockets, in insertion order
    alive,           \* the sockets whose send_text succeeds
    deliveries,      \* which group's sockets received which event of which group
    last_broadcast,  \* the last broadcast: its sends and how it ended
    broadcasts       \* number of broadcasts so far

\* Orchestrator._parse_mentions
VARIABLES
    mention_text,     \* the message text, as its atoms
    parsed,           \* the list _parse_mentions returned
    mention_pc        \* "text" before the call, "parsed" after it

\* SessionManager over its SQLite connection
VARIABLES
    tables,        \* rows of groups, group_members and messages
    foreign_keys,  \* the connection's foreign_keys pragma
    now,           \* what datetime.now() reads
    reply          \* the last SessionManager call and what it returned

\* MemoryStore.save_memory called by concurrent tasks
VARIABLES
    files,        \* per session: the entries of its JSON file, in file order
    savers,       \* per task: where its save_memory call stands, and its locals
    save_calls    \* the entries handed to save_memory so far, in call order

\* ContextBuilder.build_input
VARIABLES
    registry,     \* the agent ids AgentRegistry.agents holds
    request,      \* the arguments of the build_input call
    built         \* what build_input returned or raised

orch_vars == <<config, messages, events, turns, cur, pc, pending, idx, raised_by>>

mem_vars == <<output, mem_pc, stored_content, store, summary, daily_log>>

search_vars == <<query, top_k, found>>

adapter_vars == <<proc, result>>

runtime_vars == <<profiles, rt_pc, child, statuses, resolution>>

ws_vars == <<connections, alive, deliveries, last_broadcast, broadcasts>>

mention_vars == <<mention_text, parsed, mention_pc>>

session_vars == <<tables, foreign_keys, now, reply>>

store_vars == <<files, savers, save_calls>>

context_vars == <<registry, request, built>>

extra_vars == <<store_vars, context_vars>>

\* the components added to the four above
rest_vars == <<runtime_vars, ws_vars, mention_vars, session_vars, extra_vars>>

\* what the turn scheduler leaves alone
aux_vars == <<mem_vars, search_vars, adapter_vars, rest_vars>>

vars == <<orch_vars, mem_vars, search_vars, adapter_vars, rest_vars>>

\* ------------------------------------------------------- on_new_message
\* arguments of an on_new_message call, and the value of `pending` while no
\* call is scheduled
Call(group_id, mentions) == [group_id |-> group_id, mentions |-> mentions]

NoCall == Call("", <<>>)

\* SessionManager.get_group: whether a row with this id exists (None if not)
get_group_any(group_id) ==
    TRUE

get_group(group_id) ==
    group_id \in Groups

MustReplyUnfiltered(parsed_mentions, agent_members) ==
    IF "@all" \in Range(parsed_mentions) THEN agent_members ELSE parsed_mentions

MustReply(parsed_mentions, agent_members) ==
    IF "@all" \in Range(parsed_mentions)
    THEN agent_members
    ELSE SelectSeq(parsed_mentions, LAMBDA m : m \in Range(agent_members))

MayReply(parsed_mentions, agent_members) ==
    LET must == MustReply(parsed_mentions, agent_members)
        may  == IF "@all" \in Range(parsed_mentions)
                THEN <<>>
                ELSE SelectSeq(agent_members, LAMBDA m : m \notin Range(must))
    IN  IF must = <<>> /\ may = <<>> THEN agent_members ELSE may

Turn(id, parent, source, must, may, agent_members, depth) ==
    [ turn_id           |-> id,
      parent            |-> parent,
      trigger_source    |-> source,
      must_reply_agents |-> must,
      may_reply_agents  |-> may,
      group_agent_ids   |-> agent_members,
      max_responders    |-> config.max_responders,
      chain_depth       |-> depth,
      must_results      |-> <<>>,
      must_order        |-> <<>>,
      may_agents        |-> <<>>,
      may_results       |-> <<>>,
      may_order         |-> <<>>,
      must_current      |-> <<>>,
      may_current       |-> <<>>,
      all_next_mentions |-> {},
      replied_agents    |-> {} ]

StoredMessage(turn_id, author_id, author_type, nm, phase, slot) ==
    [ turn_id |-> turn_id, author_id |-> author_id, author_type |-> author_type,
      next_mentions |-> nm, phase |-> phase, slot |-> slot ]

Event(type, turn_id, agent_id, is_error) ==
    [ type |-> type, turn_id |-> turn_id, agent_id |-> agent_id, is_error |-> is_error ]

\* the other components at rest: no reply is being post-processed, the
\* session has no memory file and no summary file, nothing was searched and
\* no adapter was invoked
MemoryIdle ==
    /\ output = <<>>
    /\ mem_pc = "idle"
    /\ stored_content = <<>>
    /\ store = <<>>
    /\ summary = <<>>
    /\ daily_log = <<>>

SearchIdle ==
    /\ query = <<>>
    /\ top_k = 0
    /\ found = <<>>

AdapterIdle ==
    /\ proc = [cli_type |-> "none", ending |-> "none", returncode |-> 0,
               stdout |-> [wrap |-> "none", text |-> <<>>], stderr |-> <<>>]
    /\ result = [kind |-> "none", content |-> <<>>, should_respond |-> FALSE,
                 next_mentions |-> {}, meta |-> "none"]

\* no invocation is under way
RuntimeIdle ==
    /\ profiles = [a \in Range(GroupAgents) |-> [cli_type |-> "none", workspace_exists |-> FALSE]]
    /\ rt_pc = [a \in Range(GroupAgents) |-> "idle"]
    /\ child = [a \in Range(GroupAgents) |-> "none"]
    /\ statuses = [a \in Range(GroupAgents) |-> <<>>]
    /\ resolution = [a \in Range(GroupAgents) |-> "none"]

\* WebSocketManager.__init__: no connection, nothing broadcast
BroadcasterIdle ==
    /\ connections = <<>>
    /\ alive = {}
    /\ deliveries = {}
    /\ last_broadcast = [kind |-> "none", group_id |-> "", sent |-> {}, failed |-> {},
                         raised |-> FALSE]
    /\ broadcasts = 0

MentionIdle ==
    /\ mention_text = <<>>
    /\ parsed = <<>>
    /\ mention_pc = "idle"

\* an empty database, no call made
SessionIdle ==
    /\ tables = [groups |-> {}, group_members |-> {}, messages |-> <<>>]
    /\ foreign_keys = FALSE
    /\ now = 0
    /\ reply = [call |-> "none", group_id |-> "", limit |-> 0, before |-> <<>>, rows |-> <<>>]

\* no save_memory call is under way and no session has a file
StoreIdle ==
    /\ files = <<>>
    /\ savers = <<>>
    /\ save_calls = <<>>

\* no build_input call was made
ContextIdle ==
    /\ registry = {}
    /\ request = <<>>
    /\ built = <<>>

ExtraIdle ==
    /\ StoreIdle
    /\ ContextIdle

RestIdle ==
    /\ RuntimeIdle
    /\ BroadcasterIdle
    /\ MentionIdle
    /\ SessionIdle
    /\ ExtraIdle

\* the group's config: max_responders from 0 up to the number of agent members
\* (a larger quota cuts nothing), chain_depth_limit from 0 up to the bound
Init ==
    /\ config \in [ max_responders : 0..Len(GroupAgents),
                    chain_depth_limit : 0..MaxChainLimit,
                    re_invoke_already_replied : BOOLEAN ]
    /\ messages = <<>>
    /\ events = <<>>
    /\ turns = <<>>
    /\ cur = 0
    /\ pc = "idle"
    /\ pending = NoCall
    /\ idx = 0
    /\ raised_by = "none"
    /\ MemoryIdle
    /\ SearchIdle
    /\ AdapterIdle
    /\ RestIdle

\* POST /send: persist the human message, broadcast it, schedule the task
send_message ==
    /\ pc = "idle"
    /\ \E group_id \in GroupIds, mentions \in MentionInputs :
          pending' = Call(group_id, mentions)
    /\ messages' = Append(messages, StoredMessage(0, "human", "human", {}, "-", 0))
    /\ events' = Append(events, Event("user_message", 0, "human", FALSE))
    /\ pc' = "scheduled"
    /\ UNCHANGED <<config, turns, cur, idx, raised_by, aux_vars>>

\* the scheduled task starts: a missing group is logged and the task returns;
\* otherwise the first Turn is built and execute_turn is entered
on_new_message ==
    /\ pc = "scheduled"
    /\ IF ~get_group(pending.group_id)
       THEN /\ pc' = "done"
            /\ UNCHANGED <<turns, cur>>
       ELSE /\ turns' = Append(turns,
                          Turn(Len(turns) + 1, 0, "human",
                               MustReply(pending.mentions, GroupAgents),
                               MayReply(pending.mentions, GroupAgents),
                               GroupAgents, 0))
            /\ cur' = Len(turns) + 1
            /\ pc' = "phaseA"
    /\ pending' = NoCall
    /\ UNCHANGED <<config, messages, events, idx, raised_by, aux_vars>>

\* ------------------------------------------------------ execute_turn
CurTurn == turns[cur]

\* asyncio.gather returns once every awaitable has resolved
GatherFirstCompleted(results) ==
    \E i \in DOMAIN results : results[i].kind # "running"

GatherDone(results) ==
    \A i \in DOMAIN results : results[i].kind # "running"

\* return_exceptions=True: gather never re-raises an invocation's exception
GatherRaisesFirst(results) ==
    \E i \in DOMAIN results : results[i].kind \in {"exception", "timeout"}

GatherPropagates(results) ==
    FALSE

\* zip(agents, results): the k-th iteration handles the k-th started agent,
\* whatever the order the invocations completed in
LoopSlotAsCompleted(order, k) ==
    order[k]

LoopSlot(order, k) ==
    k

\* the for loop ends after the last of the n results
LoopExhaustedEarly(k, n) ==
    k >= n

LoopExhausted(k, n) ==
    k > n

\* isinstance(result, Exception): raised exceptions and asyncio.TimeoutError
IsExceptionNoTimeout(r) ==
    r.kind \notin {"output", "timeout"}

IsException(r) ==
    r.kind # "output"

\* [aid for aid in may_reply_agents if aid not in replied_agents][:remaining]
MayAgentsUncapped(may_reply_agents, replied_agents, remaining) ==
    SelectSeq(may_reply_agents, LAMBDA a : a \notin replied_agents)

MayAgents(may_reply_agents, replied_agents, remaining) ==
    Take(SelectSeq(may_reply_agents, LAMBDA a : a \notin replied_agents), remaining)

\* if not config.re_invoke_already_replied: all_next_mentions -= replied_agents
NextMentionsKeepReplied(all_next_mentions, replied_agents, re_invoke) ==
    all_next_mentions

NextMentions(all_next_mentions, replied_agents, re_invoke) ==
    IF re_invoke THEN all_next_mentions ELSE all_next_mentions \ replied_agents

\* all_next_mentions and turn.chain_depth < config.chain_depth_limit
CanChainInclusive(next, chain_depth, chain_depth_limit) ==
    next # {} /\ chain_depth <= chain_depth_limit

CanChain(next, chain_depth, chain_depth_limit) ==
    next # {} /\ chain_depth < chain_depth_limit

\* chain_depth=turn.chain_depth + 1
ChildDepth(chain_depth) ==
    chain_depth + 1

\* remaining = turn.max_responders - len(replied_agents)
RemainingZeroMeansUnlimited(max_responders, replied_agents) ==
    IF max_responders = 0
    THEN Len(GroupAgents)
    ELSE max_responders - Cardinality(replied_agents)

Remaining(max_responders, replied_agents) ==
    max_responders - Cardinality(replied_agents)

\* elif turn.chain_depth >= config.chain_depth_limit
AtChainLimitStrict(chain_depth, chain_depth_limit) ==
    chain_depth > chain_depth_limit

AtChainLimit(chain_depth, chain_depth_limit) ==
    chain_depth >= chain_depth_limit

AllRunning(agents) == [i \in DOMAIN agents |-> Running]

\* max_messages of the history build_input reads
HistoryLimit == 50

\* _get_truncated_history: the newest max_messages rows, oldest first
get_truncated_history(rows, max_messages) ==
    SubSeq(rows, Max(1, Len(rows) - max_messages + 1), Len(rows))

\* what the prompt shows as the message to reply to, and the query of the
\* memory retrieval: messages[-1] (nothing for an empty history)
current_message(msgs) ==
    IF msgs = <<>> THEN <<>> ELSE <<msgs[Len(msgs)]>>

\* what the invocation records built by the _invoke_one calls of a phase show
\* as the message to reply to: build_input reads the messages table when the
\* gather starts them
CurrentOf(rows) ==
    current_message(get_truncated_history(rows, HistoryLimit))

\* Phase A entry: if turn.must_reply_agents: gather(_invoke_one(...) ...)
execute_turn ==
    /\ pc = "phaseA"
    /\ IF CurTurn.must_reply_agents # <<>>
       THEN /\ turns' = [turns EXCEPT ![cur].must_results =
                                         AllRunning(CurTurn.must_reply_agents),
                                     ![cur].must_current = CurrentOf(messages)]
            /\ pc' = "gatherA"
       ELSE /\ pc' = "phaseB"
            /\ UNCHANGED turns
    /\ UNCHANGED <<config, messages, events, cur, pending, idx, raised_by, aux_vars>>

\* one _invoke_one of the running phase resolves: build_input raises KeyError
\* for an agent the Registry does not know, otherwise invoke_agent returns an
\* output, raises, or asyncio.wait_for cancels it at turn.timeout_seconds;
\* `outcomes` are the results the agents of the run can produce
invoke_one_of(outcomes) ==
    \/ /\ pc = "gatherA"
       /\ \E i \in DOMAIN CurTurn.must_results, r \in outcomes :
             /\ CurTurn.must_results[i].kind = "running"
             /\ CurTurn.must_reply_agents[i] \in Registered \/ r.kind = "exception"
             /\ turns' = [turns EXCEPT ![cur].must_results[i] = r,
                                       ![cur].must_order = Append(@, i)]
       /\ UNCHANGED <<config, messages, events, cur, pc, pending, idx, raised_by, aux_vars>>
    \/ /\ pc = "gatherB"
       /\ \E i \in DOMAIN CurTurn.may_results, r \in outcomes :
             /\ CurTurn.may_results[i].kind = "running"
             /\ CurTurn.may_agents[i] \in Registered \/ r.kind = "exception"
             /\ turns' = [turns EXCEPT ![cur].may_results[i] = r,
                                       ![cur].may_order = Append(@, i)]
       /\ UNCHANGED <<config, messages, events, cur, pc, pending, idx, raised_by, aux_vars>>

invoke_one ==
    invoke_one_of(Outcomes)

\* the await on asyncio.gather returns (or re-raises)
gather_returns ==
    \/ /\ pc = "gatherA"
       /\ IF GatherPropagates(CurTurn.must_results)
          THEN pc' = "raised" /\ raised_by' = "invoke_one" /\ idx' = idx
          ELSE /\ GatherDone(CurTurn.must_results)
               /\ pc' = "loopA" /\ idx' = 1 /\ raised_by' = raised_by
       /\ UNCHANGED <<config, messages, events, turns, cur, pending, aux_vars>>
    \/ /\ pc = "gatherB"
       /\ IF GatherPropagates(CurTurn.may_results)
          THEN pc' = "raised" /\ raised_by' = "invoke_one" /\ idx' = idx
          ELSE /\ GatherDone(CurTurn.may_results)
               /\ pc' = "loopB" /\ idx' = 1 /\ raised_by' = raised_by
       /\ UNCHANGED <<config, messages, events, turns, cur, pending, aux_vars>>

\* _save_call_log_and_broadcast: a turn_log event only if execution_meta is set
TurnLog(out, agent_id, turn_id) ==
    IF out.meta # "none"
    THEN <<Event("turn_log", turn_id, agent_id, out.meta = "err")>>
    ELSE <<>>

\* body of one loop iteration for a result that is kept: call log and
\* turn_log, save_message (which may raise), agent_message broadcast,
\* all_next_mentions.update, replied_agents.add
keep_output(out, agent_id, phase, slot) ==
    \E saved \in BOOLEAN :
       IF saved
       THEN /\ events' = events \o TurnLog(out, agent_id, cur)
                           \o <<Event("agent_message", cur, agent_id, FALSE)>>
            /\ messages' = Append(messages,
                  StoredMessage(cur, agent_id, "agent", out.next_mentions, phase, slot))
            /\ turns' = [turns EXCEPT
                  ![cur].all_next_mentions = @ \cup out.next_mentions,
                  ![cur].replied_agents = @ \cup {agent_id}]
            /\ idx' = idx + 1
            /\ UNCHANGED <<pc, raised_by>>
       ELSE /\ events' = events \o TurnLog(out, agent_id, cur)
            /\ pc' = "raised"
            /\ raised_by' = "save_message"
            /\ UNCHANGED <<messages, turns, idx>>

\* for agent_id, result in zip(turn.must_reply_agents, must_results)
phaseA_loop ==
    /\ pc = "loopA"
    /\ LET n == Len(CurTurn.must_reply_agents)
       IN  IF LoopExhausted(idx, n)
           THEN /\ pc' = "phaseB"
                /\ UNCHANGED <<messages, events, turns, idx, raised_by>>
           ELSE LET slot  == LoopSlot(CurTurn.must_order, idx)
                    out   == CurTurn.must_results[slot]
                    agent == CurTurn.must_reply_agents[slot]
                IN  IF IsException(out)
                    THEN /\ idx' = idx + 1
                         /\ UNCHANGED <<messages, events, turns, pc, raised_by>>
                    ELSE keep_output(out, agent, "A", slot)
    /\ UNCHANGED <<config, cur, pending, aux_vars>>

\* Phase B entry: remaining quota, first `remaining` of may_reply, gather
phaseB_start ==
    /\ pc = "phaseB"
    /\ LET remaining == Remaining(CurTurn.max_responders, CurTurn.replied_agents)
       IN  IF remaining > 0 /\ CurTurn.may_reply_agents # <<>>
           THEN LET may_agents == MayAgents(CurTurn.may_reply_agents,
                                            CurTurn.replied_agents, remaining)
                IN  /\ turns' = [turns EXCEPT ![cur].may_agents = may_agents,
                                              ![cur].may_results = AllRunning(may_agents),
                                              ![cur].may_current = CurrentOf(messages)]
                    /\ pc' = "gatherB"
           ELSE /\ pc' = "chain"
                /\ UNCHANGED turns
    /\ UNCHANGED <<config, messages, events, cur, pending, idx, raised_by, aux_vars>>

\* if not output.should_respond: continue (Phase B only)
DroppedNever(out) ==
    FALSE

Dropped(out) ==
    ~out.should_respond

\* for agent_id, result in zip(may_agents, may_results)
phaseB_loop ==
    /\ pc = "loopB"
    /\ LET n == Len(CurTurn.may_agents)
       IN  IF LoopExhausted(idx, n)
           THEN /\ pc' = "chain"
                /\ UNCHANGED <<messages, events, turns, idx, raised_by>>
           ELSE LET slot  == LoopSlot(CurTurn.may_order, idx)
                    out   == CurTurn.may_results[slot]
                    agent == CurTurn.may_agents[slot]
                IN  IF IsException(out) \/ Dropped(out)
                    THEN /\ idx' = idx + 1
                         /\ UNCHANGED <<messages, events, turns, pc, raised_by>>
                    ELSE keep_output(out, agent, "B", slot)
    /\ UNCHANGED <<config, cur, pending, aux_vars>>

\* after Phase B: open the chained Turn and recurse, or broadcast the
\* chain-limit notice, or just return
chain_or_stop ==
    /\ pc = "chain"
    /\ LET next == NextMentions(CurTurn.all_next_mentions, CurTurn.replied_agents,
                                config.re_invoke_already_replied)
           remaining_agents ==
               SelectSeq(GroupAgents,
                         LAMBDA a : a \notin next /\ a \notin CurTurn.replied_agents)
       IN  IF CanChain(next, CurTurn.chain_depth, config.chain_depth_limit)
           THEN /\ \E must \in Perms(next) :
                      turns' = Append(turns,
                          Turn(Len(turns) + 1, cur, "system", must, remaining_agents,
                               GroupAgents, ChildDepth(CurTurn.chain_depth)))
                /\ cur' = Len(turns) + 1
                /\ pc' = "phaseA"
                /\ UNCHANGED events
           ELSE /\ IF AtChainLimit(CurTurn.chain_depth, config.chain_depth_limit)
                   THEN events' = Append(events, Event("system_message", cur, "system", FALSE))
                   ELSE events' = events
                /\ pc' = "done"
                /\ UNCHANGED <<turns, cur>>
    /\ UNCHANGED <<config, messages, pending, idx, raised_by, aux_vars>>

Next ==
    \/ send_message
    \/ on_new_message
    \/ execute_turn
    \/ invoke_one
    \/ gather_returns
    \/ phaseA_loop
    \/ phaseB_start
    \/ phaseB_loop
    \/ chain_or_stop

Spec == Init /\ [][Next]_vars

\* every await of the task is eventually resumed: the event loop keeps running
\* the task, each invocation resolves (asyncio.wait_for bounds it by
\* turn.timeout_seconds) and each database call returns or raises
FairSpec == Spec /\ WF_vars(Next)

\* --- ChainSpec: the scheduler with a chain of one follow-up turn, where a
\* reply may also name a member of the group in its NEXT_MENTIONS marker
ChainOutcomes ==
    Outcomes \cup { AgentOutput(TRUE, {"a1"}, "none") }

ChainInit ==
    /\ Init
    /\ config.chain_depth_limit = 1

ChainNext ==
    \/ send_message
    \/ on_new_message
    \/ execute_turn
    \/ invoke_one_of(ChainOutcomes)
    \/ gather_returns
    \/ phaseA_loop
    \/ phaseB_start
    \/ phaseB_loop
    \/ chain_or_stop

ChainSpec == ChainInit /\ [][ChainNext]_vars

TypeOK ==
    /\ pc \in {"idle", "scheduled", "phaseA", "gatherA", "loopA", "phaseB",
               "gatherB", "loopB", "chain", "done", "raised"}
    /\ cur \in 0..Len(turns)
    /\ \A t \in DOMAIN turns : turns[t].turn_id = t

\* =================================================================
\* Memory markers, Memory Store and session summary
\* =================================================================
\* ------------------------------------------------------------------ bounds
\* longest reply content, in tokens, that MarkerSpec post-processes
MaxContentLen == 4

\* most MEMORY markers one reply of MemorySpec carries
MaxMarkers == 2

\* entries the session file holds when a reply arrives (MemorySpec, SearchSpec)
MaxEntries == 3

\* largest top_k search_memory is called with
MaxTopK == 2

\* ------------------------------------------------------------------ text
\* A content string is a sequence of tokens: the two marker openers, the
\* closer, JSON-looking payloads, plain text and whitespace.
OpenMemory == "<!--MEMORY:"

OpenLog == "<!--PERSONAL_LOG:"

Close == "-->"

Text == "ok"

Space == " "

\* payload texts json.loads accepts, named by what the object holds:
\*   {decision 0.9}  {"type":"decision","content":"Use db","importance":0.9}
\*   {content only}  {"content":"api"}
\*   {decision 0}    {"type":"decision","content":"api first","importance":0}
\*   {}              {}
\*   {type note}     {"type":"note","content":"x"}
ValidJson == {"{decision 0.9}", "{content only}", "{decision 0}", "{}", "{type note}"}

\* texts that start with { and end with }: the above and one json.loads rejects
Braced == ValidJson \cup {"{not json}"}

\* json.loads on a payload the regex captured
JsonObject(text) ==
    CASE text = "{decision 0.9}" ->
            [type |-> "decision", content |-> <<"Use", "db">>, importance |-> 9]
      [] text = "{content only}" ->
            [content |-> <<"api">>]
      [] text = "{decision 0}" ->
            [type |-> "decision", content |-> <<"api", "first">>, importance |-> 0]
      [] text = "{type note}" ->
            [type |-> "note", content |-> <<"x">>]
      [] OTHER -> [k \in {} |-> 0]

json_loads(payload) ==
    IF Len(payload) = 1 /\ payload[1] \in ValidJson
    THEN [ok |-> TRUE, data |-> JsonObject(payload[1])]
    ELSE [ok |-> FALSE, data |-> [k \in {} |-> 0]]

\* dict.get(key, default)
Get(d, key, default) == IF key \in DOMAIN d THEN d[key] ELSE default

\* str.strip(): leading and trailing whitespace removed
RECURSIVE strip(_)
strip(c) ==
    IF c = <<>> THEN <<>>
    ELSE IF Head(c) = Space THEN strip(Tail(c))
    ELSE IF c[Len(c)] = Space THEN strip(SubSeq(c, 1, Len(c) - 1))
    ELSE c

\* ----------------------------------------------------------------- regexes
\* where the match of _RE_MEMORY that starts at i ends (0: no match at i):
\* the opener, a payload whose first character is {, then as little as
\* possible up to the first }-->
MemoryMatchEnd(c, i) ==
    IF /\ c[i] = OpenMemory
       /\ i < Len(c)
       /\ c[i + 1] \in Braced
       /\ \E j \in (i + 1)..(Len(c) - 1) : c[j] \in Braced /\ c[j + 1] = Close
    THEN 1 + CHOOSE j \in (i + 1)..(Len(c) - 1) :
                /\ c[j] \in Braced /\ c[j + 1] = Close
                /\ \A h \in (i + 1)..(j - 1) : ~(c[h] \in Braced /\ c[h + 1] = Close)
    ELSE 0

\* where the match of _RE_PERSONAL_LOG that starts at i ends (0: no match):
\* the opener, then as little as possible up to the first -->
LogMatchEnd(c, i) ==
    IF c[i] = OpenLog /\ \E j \in (i + 1)..Len(c) : c[j] = Close
    THEN CHOOSE j \in (i + 1)..Len(c) :
            c[j] = Close /\ \A h \in (i + 1)..(j - 1) : c[h] # Close
    ELSE 0

MatchEnd(kind, c, i) ==
    IF kind = OpenMemory THEN MemoryMatchEnd(c, i) ELSE LogMatchEnd(c, i)

\* pattern.finditer(c): group(1) of the non-overlapping matches, left to right
RECURSIVE finditer(_, _, _)
finditer(kind, c, i) ==
    IF i > Len(c) THEN <<>>
    ELSE LET e == MatchEnd(kind, c, i)
         IN  IF e = 0 THEN finditer(kind, c, i + 1)
             ELSE <<SubSeq(c, i + 1, e - 1)>> \o finditer(kind, c, e + 1)

\* pattern.sub("", c): the matches cut out
RECURSIVE sub(_, _, _)
sub(kind, c, i) ==
    IF i > Len(c) THEN <<>>
    ELSE LET e == MatchEnd(kind, c, i)
         IN  IF e = 0 THEN <<c[i]>> \o sub(kind, c, i + 1)
             ELSE sub(kind, c, e + 1)

\* the content _process_memory_markers leaves in output.content
StripMarkers(content) ==
    strip(sub(OpenLog, sub(OpenMemory, content, 1), 1))

\* ------------------------------------------------------------ Memory Store
MemoryTypes == {"decision", "requirement", "task", "issue", "summary"}

\* _TYPE_LABELS, in insertion order
TypeOrder == <<"decision", "requirement", "task", "issue", "summary">>

\* _SUMMARY_MAX_ENTRIES
SUMMARY_MAX_ENTRIES == 20

\* importance is kept in tenths (0.7 is 7)
DefaultImportance == 7

\* MemoryEntry(...) of line 318: pydantic rejects a memory_type outside the
\* Literal
EntryRejected(mem) == Get(mem, "type", "summary") \notin MemoryTypes

MemoryEntry(mem, agent_id) ==
    [ content           |-> strip(Get(mem, "content", <<>>)),
      memory_type       |-> Get(mem, "type", "summary"),
      importance        |-> Get(mem, "importance", DefaultImportance),
      source_message_id |-> agent_id ]

\* the valid entries a MEMORY marker can leave in the session file
EntryKinds ==
    { MemoryEntry(JsonObject(p), "a1") : p \in {"{decision 0.9}", "{content only}", "{decision 0}"} }

\* the files a session can have: entries in any order
RECURSIVE Seqs(_, _)
Seqs(S, n) ==
    IF n = 0 THEN { <<>> }
    ELSE Seqs(S, n - 1) \cup { Append(s, x) : s \in Seqs(S, n - 1), x \in S }

\* list.sort(key=..., reverse=True) on (key, val) pairs: descending by key,
\* pairs with equal keys keep their order
RECURSIVE sort_reverse(_)
sort_reverse(s) ==
    IF s = <<>> THEN <<>>
    ELSE LET i == CHOOSE i \in DOMAIN s :
                     /\ \A j \in DOMAIN s : s[j].key <= s[i].key
                     /\ \A j \in 1..(i - 1) : s[j].key < s[i].key
         IN  <<s[i]>> \o sort_reverse(SubSeq(s, 1, i - 1) \o SubSeq(s, i + 1, Len(s)))

\* the text rebuild_from_entries writes: the top entries by importance,
\* grouped by type in _TYPE_LABELS order, empty groups left out
SummaryText(entries) ==
    LET sorted_entries ==
            sort_reverse([i \in DOMAIN entries |->
                             [key |-> entries[i].importance, val |-> entries[i]]])
        top == Take(sorted_entries, SUMMARY_MAX_ENTRIES)
        items(mtype) ==
            LET of_type == SelectSeq(top, LAMBDA p : p.val.memory_type = mtype)
            IN  [i \in DOMAIN of_type |-> of_type[i].val.content]
        sections == [i \in DOMAIN TypeOrder |->
                        [label |-> TypeOrder[i], items |-> items(TypeOrder[i])]]
    IN  SelectSeq(sections, LAMBDA g : g.items # <<>>)

\* SessionSummaryManager.rebuild_from_entries: nothing is written for no entries
rebuild_from_entries(old, entries) ==
    IF entries = <<>> THEN old ELSE SummaryText(entries)

\* ------------------------------------------------- _process_memory_markers
\* the dicts of the MEMORY markers whose payload json.loads accepted
session_memories(content) ==
    LET groups == finditer(OpenMemory, content, 1)
        loaded == [i \in DOMAIN groups |-> json_loads(groups[i])]
        ok     == SelectSeq(loaded, LAMBDA l : l.ok)
    IN  [i \in DOMAIN ok |-> ok[i].data]

\* the stripped, non-empty payloads of the PERSONAL_LOG markers
personal_logs(content) ==
    LET groups == finditer(OpenLog, content, 1)
        logs   == [i \in DOMAIN groups |-> strip(groups[i])]
    IN  SelectSeq(logs, LAMBDA l : l # <<>>)

\* how many dicts the save loop gets through: all of them, or those before
\* the first one MemoryEntry rejects
RaisesAt(mems) ==
    IF \E i \in DOMAIN mems :
           /\ strip(Get(mems[i], "content", <<>>)) # <<>>
           /\ EntryRejected(mems[i])
    THEN CHOOSE i \in DOMAIN mems :
           /\ strip(Get(mems[i], "content", <<>>)) # <<>> /\ EntryRejected(mems[i])
           /\ \A h \in 1..(i - 1) :
                 ~(strip(Get(mems[h], "content", <<>>)) # <<>> /\ EntryRejected(mems[h]))
    ELSE 0

\* the entries the save loop appends, in order (empty contents are skipped)
SavedEntries(mems, agent_id) ==
    LET n      == IF RaisesAt(mems) = 0 THEN Len(mems) ELSE RaisesAt(mems) - 1
        tried  == SubSeq(mems, 1, n)
        filled == SelectSeq(tried, LAMBDA m : strip(Get(m, "content", <<>>)) # <<>>)
    IN  [i \in DOMAIN filled |-> MemoryEntry(filled[i], agent_id)]

\* get_all_memories after the save loop: the whole session file
get_all_memories(entries, saved) ==
    entries \o saved

\* _process_memory_markers on the reply in `output`: markers are extracted
\* and cut out, each accepted MEMORY dict is appended to the session file,
\* the summary is rebuilt from the whole file, the logs are appended to the
\* daily log; a dict MemoryEntry rejects raises out of the function after the
\* earlier ones are saved and before the rebuild
process_memory_markers ==
    /\ mem_pc = "reply"
    /\ LET mems  == session_memories(output)
           saved == SavedEntries(mems, "a1")
       IN  /\ output' = StripMarkers(output)
           /\ store' = store \o saved
           /\ IF RaisesAt(mems) # 0
              THEN /\ mem_pc' = "raised"
                   /\ UNCHANGED <<summary, daily_log>>
              ELSE /\ mem_pc' = "processed"
                   /\ summary' = IF mems # <<>>
                                 THEN rebuild_from_entries(summary, get_all_memories(store, saved))
                                 ELSE summary
                   /\ daily_log' = daily_log \o personal_logs(output)
    /\ UNCHANGED <<stored_content, orch_vars, search_vars, adapter_vars, rest_vars>>

\* execute_turn persists the reply with the content the function left
save_message ==
    /\ mem_pc = "processed"
    /\ stored_content' = output
    /\ mem_pc' = "saved"
    /\ UNCHANGED <<output, store, summary, daily_log, orch_vars, search_vars, adapter_vars, rest_vars>>

\* the scheduler at rest while another component is exercised
DefaultConfig ==
    [max_responders |-> 5, chain_depth_limit |-> 5, re_invoke_already_replied |-> FALSE]

OrchestratorIdle ==
    /\ config = DefaultConfig
    /\ messages = <<>>
    /\ events = <<>>
    /\ turns = <<>>
    /\ cur = 0
    /\ pc = "idle"
    /\ pending = NoCall
    /\ idx = 0
    /\ raised_by = "none"

\* --- MarkerSpec: one reply with any content up to MaxContentLen tokens
MarkerTokens == {OpenMemory, OpenLog, Close, "{content only}", "{not json}", Text, Space}

Contents == Seqs(MarkerTokens, MaxContentLen)

MarkerInit ==
    /\ OrchestratorIdle
    /\ RestIdle
    /\ SearchIdle
    /\ AdapterIdle
    /\ output \in Contents
    /\ mem_pc = "reply"
    /\ stored_content = <<>>
    /\ store = <<>>
    /\ summary = <<>>
    /\ daily_log = <<>>

MarkerNext ==
    \/ process_memory_markers
    \/ save_message

MarkerSpec == MarkerInit /\ [][MarkerNext]_vars

\* --- MemorySpec: replies with MEMORY markers arrive one after another
Payloads == Braced

RECURSIVE Marked(_)
Marked(payloads) ==
    IF payloads = <<>> THEN <<Text>>
    ELSE Marked(SubSeq(payloads, 1, Len(payloads) - 1))
             \o <<OpenMemory, payloads[Len(payloads)], Close>>

\* the replies of MemorySpec: a text followed by MEMORY markers
MemoryReplies ==
    { Marked(ps) : ps \in Seqs(Payloads, MaxMarkers) \ { <<>> } }

\* the next reply reaches the loop of execute_turn (a reply that raised ended
\* its task; the next message starts a new one)
agent_output ==
    /\ mem_pc \in {"idle", "saved", "raised"}
    /\ Len(store) < MaxEntries
    /\ output' \in MemoryReplies
    /\ mem_pc' = "reply"
    /\ UNCHANGED <<stored_content, store, summary, daily_log,
                   orch_vars, search_vars, adapter_vars, rest_vars>>

MemoryInit ==
    /\ OrchestratorIdle
    /\ RestIdle
    /\ SearchIdle
    /\ AdapterIdle
    /\ MemoryIdle

MemoryNext ==
    \/ agent_output
    \/ process_memory_markers
    \/ save_message

MemorySpec == MemoryInit /\ [][MemoryNext]_vars

\* ----------------------------------------------------------- search_memory
\* str.lower() on a word
Lower(w) ==
    CASE w = "Use" -> "use"
      [] w = "DB"  -> "db"
      [] OTHER     -> w

\* set(text.lower().split())
words(text) == { Lower(text[i]) : i \in DOMAIN text }

\* overlap * 0.5 + importance * 0.5, in twentieths
Score(entry, query_words) ==
    10 * Cardinality(query_words \cap words(entry.content)) + entry.importance

\* if score > 0
KeepNonNegative(score) ==
    score >= 0

Keep(score) ==
    score > 0

\* MemoryStore.search_memory; the entries returned are named by their
\* position in the session file
search_memory(entries, query_text, k) ==
    IF entries = <<>> THEN <<>>
    ELSE LET query_words == words(query_text)
             all    == [i \in DOMAIN entries |->
                           [key |-> Score(entries[i], query_words), val |-> i]]
             scored == sort_reverse(SelectSeq(all, LAMBDA p : Keep(p.key)))
             top    == Take(scored, k)
         IN  [i \in DOMAIN top |-> top[i].val]

Queries == { <<>>, <<"DB">>, <<"api", "db">>, <<"zzz">> }

SearchInit ==
    /\ OrchestratorIdle
    /\ RestIdle
    /\ AdapterIdle
    /\ output = <<>>
    /\ stored_content = <<>>
    /\ daily_log = <<>>
    /\ store \in Seqs(EntryKinds, MaxEntries)
    /\ summary = SummaryText(store)
    /\ query \in Queries
    /\ top_k \in 0..MaxTopK
    /\ found = <<>>
    /\ mem_pc = "search"

\* ContextBuilder asks the store for the entries that match the query
search_memory_returns ==
    /\ mem_pc = "search"
    /\ found' = search_memory(store, query, top_k)
    /\ mem_pc' = "searched"
    /\ UNCHANGED <<query, top_k, output, stored_content, store, summary, daily_log,
                   orch_vars, adapter_vars, rest_vars>>

SearchNext ==
    \/ search_memory_returns

SearchSpec == SearchInit /\ [][SearchNext]_vars

\* =================================================================
\* CLI adapters
\* =================================================================
\* longest stdout text, in tokens, a subprocess prints
MaxStdoutLen == 2

CliTypes == {"claude", "cursor", "generic"}

NextMarker == "<!--NEXT_MENTIONS:[\"x\"]-->"

NextMarkerY == "<!--NEXT_MENTIONS:[\"y\"]-->"

NextMarkers == {NextMarker, NextMarkerY}

\* json.loads of the bracketed array of a marker
MarkerArray(marker) == IF marker = NextMarker THEN {"x"} ELSE {"y"}

\* what a CLI prints: plain words, the SKIP word, NEXT_MENTIONS markers
OutTokens == {"hello", "SKIP", NextMarker, NextMarkerY}

\* stdout: its text, bare or as the "result" of a JSON object
Stdouts == [wrap : {"none", "dict"}, text : Seqs(OutTokens, MaxStdoutLen)]

Stderrs == { <<>>, <<"boom">> }

\* exit codes: success, a failure of the tool, the shell's "command not found"
ReturnCodes == {0, 1, 127}

\* how the subprocess of one invoke ends: it completes with an exit code and
\* its two streams, it runs into the adapter's timeout, starting it raises
\* FileNotFoundError, or starting it raises another OSError; the generic
\* adapter may also have no command configured
Proc(cli_type, ending, returncode, stdout, stderr) ==
    [cli_type |-> cli_type, ending |-> ending, returncode |-> returncode,
     stdout |-> stdout, stderr |-> stderr]

NoStdout == [wrap |-> "none", text |-> <<>>]

Procs ==
    { Proc(c, "completed", rc, out, err) :
          c \in CliTypes, rc \in ReturnCodes, out \in Stdouts, err \in Stderrs }
    \cup { Proc(c, e, 0, NoStdout, <<>>) :
          c \in CliTypes, e \in {"timeout", "not_found", "os_error"} }
    \cup { Proc("generic", "unconfigured", 0, NoStdout, <<>>) }

NoProc == Proc("none", "none", 0, NoStdout, <<>>)

\* what invoke gives back: an AgentOutput, or an exception raised out of it
AdapterOutput(content, should_respond, next_mentions, meta) ==
    [kind |-> "output", content |-> content, should_respond |-> should_respond,
     next_mentions |-> next_mentions, meta |-> meta]

Raised ==
    [kind |-> "raised", content |-> <<>>, should_respond |-> FALSE,
     next_mentions |-> {}, meta |-> "none"]

NoResult ==
    [kind |-> "none", content |-> <<>>, should_respond |-> FALSE,
     next_mentions |-> {}, meta |-> "none"]

\* process.stdout decoded and stripped
raw_output(stdout) ==
    strip(IF stdout.wrap = "dict"
          THEN <<"{\"result\":\"">> \o stdout.text \o <<"\"}">>
          ELSE stdout.text)

\* json.loads(raw_output) and data.get("result", ...) of the Claude and
\* Cursor adapters: the result of a JSON object, else the raw text
json_result(stdout) ==
    IF stdout.wrap = "dict" THEN stdout.text ELSE raw_output(stdout)

\* positions of the NEXT_MENTIONS markers of a content
MarkersAt(content) == { i \in DOMAIN content : content[i] \in NextMarkers }

Min(S) == CHOOSE n \in S : \A m \in S : n <= m

\* the NEXT_MENTIONS step shared by the three _parse_output methods:
\* re.search matches the leftmost marker, re.sub removes every marker
next_mentions_of(content) ==
    IF MarkersAt(content) = {} THEN {}
    ELSE MarkerArray(content[Min(MarkersAt(content))])

without_next_mentions(content) ==
    IF MarkersAt(content) # {}
    THEN strip(SelectSeq(content, LAMBDA t : t \notin NextMarkers))
    ELSE content

\* ClaudeCliAdapter._parse_output / CursorCliAdapter._parse_output
parse_output(stdout, meta) ==
    LET content == json_result(stdout)
        skip    == strip(content) # <<>> /\ Head(strip(content)) = "SKIP"
        kept    == IF skip THEN <<>> ELSE content
    IN  AdapterOutput(without_next_mentions(kept), ~skip, next_mentions_of(kept), meta)

\* GenericCliAdapter._parse_output: no JSON step, SKIP only as the whole text
generic_parse_output(content) ==
    LET skip == strip(content) = <<"SKIP">>
        kept == IF skip THEN <<>> ELSE content
    IN  AdapterOutput(without_next_mentions(kept), ~skip, next_mentions_of(kept), "none")

\* f"[CLI Error] {err or raw_output}"
cli_error(p) ==
    <<"[CLI Error]">> \o (IF strip(p.stderr) # <<>> THEN strip(p.stderr)
                          ELSE raw_output(p.stdout))

\* ClaudeCliAdapter.invoke
claude_invoke(p) ==
    CASE p.ending = "timeout"   -> AdapterOutput(<<"[Timeout]">>, TRUE, {}, "none")
      [] p.ending = "not_found" -> AdapterOutput(<<"[Error]">>, TRUE, {}, "none")
      [] p.ending = "os_error"  -> Raised
      [] OTHER ->
            IF p.returncode # 0
            THEN AdapterOutput(cli_error(p), TRUE, {}, "none")
            ELSE parse_output(p.stdout, "none")

\* CursorCliAdapter.invoke
cursor_invoke(p) ==
    CASE p.ending = "timeout"   -> AdapterOutput(<<"[Timeout]">>, TRUE, {}, "none")
      [] p.ending = "not_found" -> AdapterOutput(<<"[Error]">>, TRUE, {}, "none")
      [] p.ending = "os_error"  -> Raised
      [] OTHER ->
            IF p.returncode # 0
            THEN AdapterOutput(cli_error(p), TRUE, {}, "err")
            ELSE parse_output(p.stdout, "ok")

\* GenericCliAdapter.invoke: the exit code is not read
generic_invoke(p) ==
    CASE p.ending = "unconfigured" -> AdapterOutput(<<"[Error]">>, TRUE, {}, "none")
      [] p.ending = "timeout"      -> AdapterOutput(<<"[Timeout]">>, TRUE, {}, "none")
      [] p.ending \in {"not_found", "os_error"} ->
            AdapterOutput(<<"[CLI Error]", p.ending>>, TRUE, {}, "none")
      [] OTHER ->
            LET content == raw_output(p.stdout)
            IN  IF content = <<>> /\ p.stderr # <<>>
                THEN generic_parse_output(<<"[CLI Error]">> \o strip(p.stderr))
                ELSE generic_parse_output(content)

AdapterInit ==
    /\ OrchestratorIdle
    /\ RestIdle
    /\ MemoryIdle
    /\ SearchIdle
    /\ proc \in Procs
    /\ result = NoResult

\* WorkerRuntime hands the AgentInput to the agent's adapter
invoke ==
    /\ result.kind = "none"
    /\ proc # NoProc
    /\ result' = CASE proc.cli_type = "claude" -> claude_invoke(proc)
                   [] proc.cli_type = "cursor" -> cursor_invoke(proc)
                   [] OTHER                    -> generic_invoke(proc)
    /\ UNCHANGED <<proc, orch_vars, mem_vars, search_vars, rest_vars>>

AdapterNext ==
    \/ invoke

AdapterSpec == AdapterInit /\ [][AdapterNext]_vars

\* =================================================================
\* WorkerRuntime.invoke_agent under the timeout of _invoke_one
\* =================================================================
\* The invocations of one phase run side by side; each is the coroutine
\* invoke_agent awaited through asyncio.wait_for.  The adapter starts one
\* subprocess; the Claude and Cursor adapters run subprocess.run in a worker
\* thread, the generic adapter awaits process.communicate() itself.
Agents == Range(GroupAgents)

Profiles == [cli_type : CliTypes, workspace_exists : BOOLEAN]

\* a thread of the executor runs subprocess.run for these adapters
Threaded(cli_type) == cli_type \in {"claude", "cursor"}

\* _emit_status: one more agent_status for the agent
emit_status(a, status) == [statuses EXCEPT ![a] = Append(@, status)]

\* invoke_agent up to adapter.invoke: a missing workspace returns the [Error]
\* output before any status; otherwise "analyzing" goes out
invoke_agent ==
    \E a \in Agents :
        /\ rt_pc[a] = "called"
        /\ IF ~profiles[a].workspace_exists
           THEN /\ rt_pc' = [rt_pc EXCEPT ![a] = "resolved"]
                /\ resolution' = [resolution EXCEPT ![a] = "output"]
                /\ UNCHANGED statuses
           ELSE /\ rt_pc' = [rt_pc EXCEPT ![a] = "adapter"]
                /\ statuses' = emit_status(a, "analyzing")
                /\ UNCHANGED resolution
        /\ UNCHANGED <<profiles, child, orch_vars, mem_vars, search_vars, adapter_vars,
                       ws_vars, mention_vars, extra_vars, session_vars>>

\* how starting the subprocess can go
Starts(cli_type) ==
    {"started", "not_found", "os_error"}
        \cup (IF cli_type = "generic" THEN {"unconfigured"} ELSE {})

\* adapter.invoke up to the start of the subprocess.  Claude and Cursor turn
\* FileNotFoundError into an [Error] output and re-raise any other exception;
\* the generic adapter turns every exception into a [CLI Error] output.  An
\* output makes invoke_agent send "done", an exception makes it send "error"
\* and raise.
adapter_invoke ==
    \E a \in Agents : \E how \in Starts(profiles[a].cli_type) :
        /\ rt_pc[a] = "adapter"
        /\ CASE how = "started" ->
                  /\ child' = [child EXCEPT ![a] = "running"]
                  /\ rt_pc' = [rt_pc EXCEPT ![a] = "waiting"]
                  /\ UNCHANGED <<statuses, resolution>>
             [] how = "os_error" /\ Threaded(profiles[a].cli_type) ->
                  /\ statuses' = emit_status(a, "error")
                  /\ resolution' = [resolution EXCEPT ![a] = "exception"]
                  /\ rt_pc' = [rt_pc EXCEPT ![a] = "resolved"]
                  /\ UNCHANGED child
             [] OTHER ->
                  /\ statuses' = emit_status(a, "done")
                  /\ resolution' = [resolution EXCEPT ![a] = "output"]
                  /\ rt_pc' = [rt_pc EXCEPT ![a] = "resolved"]
                  /\ UNCHANGED child
        /\ UNCHANGED <<profiles, orch_vars, mem_vars, search_vars, adapter_vars,
                       ws_vars, mention_vars, extra_vars, session_vars>>

\* the CLI finishes on its own
child_exits ==
    \E a \in Agents :
        /\ child[a] = "running"
        /\ child' = [child EXCEPT ![a] = "exited"]
        /\ UNCHANGED <<profiles, rt_pc, statuses, resolution, orch_vars, mem_vars,
                       search_vars, adapter_vars, ws_vars, mention_vars, extra_vars, session_vars>>

\* the adapter reads the finished subprocess and returns its output
adapter_returns ==
    \E a \in Agents :
        /\ rt_pc[a] = "waiting"
        /\ child[a] = "exited"
        /\ statuses' = emit_status(a, "done")
        /\ resolution' = [resolution EXCEPT ![a] = "output"]
        /\ rt_pc' = [rt_pc EXCEPT ![a] = "resolved"]
        /\ UNCHANGED <<profiles, child, orch_vars, mem_vars, search_vars, adapter_vars,
                       ws_vars, mention_vars, extra_vars, session_vars>>

\* what the adapter's own timeout does to the subprocess: subprocess.run
\* kills it before raising TimeoutExpired; the generic adapter's
\* asyncio.wait_for cancels communicate() and the process is left alone
ChildAfterAdapterTimeout(cli_type, state) ==
    IF Threaded(cli_type) THEN "killed" ELSE state

\* the adapter's timeout fires first: the [Timeout] output is returned, and
\* invoke_agent sends "done"
adapter_timeout ==
    \E a \in Agents :
        /\ rt_pc[a] = "waiting"
        /\ child[a] = "running"
        /\ child' = [child EXCEPT ![a] = ChildAfterAdapterTimeout(profiles[a].cli_type, @)]
        /\ statuses' = emit_status(a, "done")
        /\ resolution' = [resolution EXCEPT ![a] = "timeout_output"]
        /\ rt_pc' = [rt_pc EXCEPT ![a] = "resolved"]
        /\ UNCHANGED <<profiles, orch_vars, mem_vars, search_vars, adapter_vars,
                       ws_vars, mention_vars, extra_vars, session_vars>>

\* the timeout of asyncio.wait_for in _invoke_one fires first: invoke_agent is
\* cancelled at its await.  CancelledError is not an Exception, so the except
\* clause of invoke_agent does not run; nothing touches the subprocess
orchestrator_timeout ==
    \E a \in Agents :
        /\ rt_pc[a] \in {"adapter", "waiting"}
        /\ resolution' = [resolution EXCEPT ![a] = "TimeoutError"]
        /\ rt_pc' = [rt_pc EXCEPT ![a] = "resolved"]
        /\ UNCHANGED <<profiles, child, statuses, orch_vars, mem_vars, search_vars,
                       adapter_vars, ws_vars, mention_vars, extra_vars, session_vars>>

\* after a cancellation the worker thread is still inside subprocess.run; its
\* timeout kills the subprocess later
executor_timeout ==
    \E a \in Agents :
        /\ rt_pc[a] = "resolved"
        /\ resolution[a] = "TimeoutError"
        /\ Threaded(profiles[a].cli_type)
        /\ child[a] = "running"
        /\ child' = [child EXCEPT ![a] = "killed"]
        /\ UNCHANGED <<profiles, rt_pc, statuses, resolution, orch_vars, mem_vars,
                       search_vars, adapter_vars, ws_vars, mention_vars, extra_vars, session_vars>>

\* asyncio.gather has scheduled _invoke_one for every agent of the phase
RuntimeInit ==
    /\ OrchestratorIdle
    /\ MemoryIdle
    /\ SearchIdle
    /\ AdapterIdle
    /\ BroadcasterIdle
    /\ MentionIdle
    /\ SessionIdle
    /\ profiles \in [Agents -> Profiles]
    /\ rt_pc = [a \in Agents |-> "called"]
    /\ child = [a \in Agents |-> "none"]
    /\ statuses = [a \in Agents |-> <<>>]
    /\ resolution = [a \in Agents |-> "none"]
    /\ ExtraIdle

RuntimeNext ==
    \/ invoke_agent
    \/ adapter_invoke
    \/ child_exits
    \/ adapter_returns
    \/ adapter_timeout
    \/ orchestrator_timeout
    \/ executor_timeout

RuntimeSpec == RuntimeInit /\ [][RuntimeNext]_vars

\* =================================================================
\* Orchestrator._parse_mentions
\* =================================================================
\* longest message text, in atoms
MaxTextLen == 5

\* display names of the registry: a1 carries the id of a2 as its name
ProfileName == [a \in Range(GroupAgents) |->
                   CASE a = "a1" -> "a2"
                     [] OTHER   -> "Ann"]

\* the localized synonym of "all" (a non-ASCII word in the source)
AllLocalized == "all_zh"

\* a text is a sequence of atoms: the character "@", one whitespace
\* character, or a word without "@" and whitespace
At == "@"

MentionAtoms == {At, Space, "all", AllLocalized, "a2", "Ann", "zz"}

\* the texts of up to n atoms
MentionTexts(n) == Seqs(MentionAtoms, n)

\* \S+ from position i on: the atoms up to the next whitespace
RECURSIVE non_space_run(_, _)
non_space_run(text, i) ==
    IF i > Len(text) \/ text[i] = Space THEN <<>>
    ELSE <<text[i]>> \o non_space_run(text, i + 1)

\* (?:^|\s)@ with the "@" at position i
AnchoredAnywhere(text, i) == text[i] = At

Anchored(text, i) ==
    /\ text[i] = At
    /\ i = 1 \/ text[i - 1] = Space

\* re.findall(r"(?:^|\s)@(\S+)", content): the tokens of the matches, left to
\* right, each search resuming where the previous match ended
RECURSIVE findall(_, _)
findall(text, i) ==
    IF i > Len(text) THEN <<>>
    ELSE LET token == non_space_run(text, i + 1)
         IN  IF Anchored(text, i) /\ token # <<>>
             THEN <<token>> \o findall(text, i + 1 + Len(token))
             ELSE findall(text, i + 1)

\* the for aid in agent_ids loop: the first agent whose profile name is match
RECURSIVE by_name(_, _, _)
by_name(match, agent_ids, k) ==
    IF k > Len(agent_ids) THEN <<>>
    ELSE IF match = <<ProfileName[agent_ids[k]]>> THEN <<agent_ids[k]>>
    ELSE by_name(match, agent_ids, k + 1)

\* the body of the for match in matches loop
resolve(match, agent_ids) ==
    IF match \in { <<"all">>, <<AllLocalized>> } THEN <<"@all">>
    ELSE IF Len(match) = 1 /\ match[1] \in Range(agent_ids) THEN match
    ELSE by_name(match, agent_ids, 1)

RECURSIVE resolve_all(_, _)
resolve_all(matches, agent_ids) ==
    IF matches = <<>> THEN <<>>
    ELSE resolve(Head(matches), agent_ids) \o resolve_all(Tail(matches), agent_ids)

parse_mentions(content, agent_ids) == resolve_all(findall(content, 1), agent_ids)

MentionInit ==
    /\ OrchestratorIdle
    /\ MemoryIdle
    /\ SearchIdle
    /\ AdapterIdle
    /\ RuntimeIdle
    /\ BroadcasterIdle
    /\ SessionIdle
    /\ mention_text \in MentionTexts(MaxTextLen)
    /\ parsed = <<>>
    /\ mention_pc = "text"
    /\ ExtraIdle

\* on_new_message parses the text of a message that came without mentions
parse_mentions_returns ==
    /\ mention_pc = "text"
    /\ parsed' = parse_mentions(mention_text, GroupAgents)
    /\ mention_pc' = "parsed"
    /\ UNCHANGED <<mention_text, orch_vars, mem_vars, search_vars, adapter_vars,
                   runtime_vars, ws_vars, session_vars, extra_vars>>

MentionNext ==
    \/ parse_mentions_returns

MentionSpec == MentionInit /\ [][MentionNext]_vars

\* =================================================================
\* SessionManager
\* =================================================================
\* rows the messages table can hold
MaxMessages == 3

\* largest reading of the clock
MaxClock == 1

\* largest limit argument of get_messages
MaxLimit == 2

SessionGroups == {"g1", "g2"}

MemberIds == {"m1"}

\* a row of group_members and a row of messages; the id of a message is its
\* rowid, its timestamp what datetime.now() read in save_message
MemberRow(id, group_id) == [id |-> id, group_id |-> group_id]

MessageRow(id, group_id, timestamp) ==
    [id |-> id, group_id |-> group_id, timestamp |-> timestamp]

Reply(call, group_id, limit, before, rows) ==
    [call |-> call, group_id |-> group_id, limit |-> limit, before |-> before, rows |-> rows]

\* the ids of groups some row carries
Referenced(t) ==
    t.groups \cup { m.group_id : m \in t.group_members }
             \cup { t.messages[i].group_id : i \in DOMAIN t.messages }

\* an INSERT with a group_id column: with foreign_keys on, the group must exist
InsertAllowed(t, group_id) == foreign_keys => group_id \in t.groups

\* create_group: a new uuid4, one no row carries
db_create_group ==
    \E g \in SessionGroups :
        /\ g \notin Referenced(tables)
        /\ tables' = [tables EXCEPT !.groups = @ \cup {g}]
        /\ reply' = Reply("create_group", g, 0, <<>>, <<>>)
        /\ UNCHANGED <<foreign_keys, now, orch_vars, mem_vars, search_vars, adapter_vars,
                       runtime_vars, ws_vars, mention_vars, extra_vars>>

\* add_member: the INSERT does not look the group up
db_add_member ==
    \E g \in SessionGroups, m \in MemberIds :
        /\ \A r \in tables.group_members : r.id # m
        /\ IF InsertAllowed(tables, g)
           THEN /\ tables' = [tables EXCEPT !.group_members = @ \cup {MemberRow(m, g)}]
                /\ reply' = Reply("add_member", g, 0, <<>>, <<>>)
           ELSE /\ tables' = tables
                /\ reply' = Reply("IntegrityError", g, 0, <<>>, <<>>)
        /\ UNCHANGED <<foreign_keys, now, orch_vars, mem_vars, search_vars, adapter_vars,
                       runtime_vars, ws_vars, mention_vars, extra_vars>>

\* the clock moves on
tick ==
    /\ now < MaxClock
    /\ now' = now + 1
    /\ UNCHANGED <<tables, foreign_keys, reply, orch_vars, mem_vars, search_vars,
                   adapter_vars, runtime_vars, ws_vars, mention_vars, extra_vars>>

\* save_message: timestamp = datetime.now().isoformat(), INSERT, commit
db_save_message ==
    \E g \in SessionGroups :
        /\ Len(tables.messages) < MaxMessages
        /\ IF InsertAllowed(tables, g)
           THEN /\ tables' = [tables EXCEPT !.messages =
                                 Append(@, MessageRow(Len(@) + 1, g, now))]
                /\ reply' = Reply("save_message", g, 0, <<>>, <<>>)
           ELSE /\ tables' = tables
                /\ reply' = Reply("IntegrityError", g, 0, <<>>, <<>>)
        /\ UNCHANGED <<foreign_keys, now, orch_vars, mem_vars, search_vars, adapter_vars,
                       runtime_vars, ws_vars, mention_vars, extra_vars>>

\* DELETE FROM groups WHERE id = ?: ON DELETE CASCADE acts only with
\* foreign_keys on
delete_rows(t, group_id) ==
    IF foreign_keys
    THEN [groups |-> t.groups \ {group_id},
          group_members |-> { m \in t.group_members : m.group_id # group_id },
          messages |-> SelectSeq(t.messages, LAMBDA r : r.group_id # group_id)]
    ELSE [t EXCEPT !.groups = @ \ {group_id}]

db_delete_group ==
    \E g \in SessionGroups :
        /\ tables' = delete_rows(tables, g)
        /\ reply' = Reply("delete_group", g, 0, <<>>, <<>>)
        /\ UNCHANGED <<foreign_keys, now, orch_vars, mem_vars, search_vars, adapter_vars,
                       runtime_vars, ws_vars, mention_vars, extra_vars>>

\* SELECT * FROM groups WHERE id = ?
db_get_group(t, group_id) == t.groups \cap {group_id}

\* SELECT * FROM group_members WHERE group_id = ?
list_group_members(t, group_id) == { m \in t.group_members : m.group_id = group_id }

\* WHERE group_id = ? [AND timestamp < ?]: `if before:` decides
Selected(t, group_id, before) ==
    { t.messages[i] : i \in { j \in DOMAIN t.messages :
          /\ t.messages[j].group_id = group_id
          /\ before # <<>> => t.messages[j].timestamp < before[1] } }

\* ORDER BY timestamp DESC: the rows in any order that descends by timestamp
\* (SQL leaves the order of rows with equal timestamps open)
OrderByTimestampDesc(rows) ==
    { s \in Perms(rows) : \A i, j \in DOMAIN s : i < j => s[i].timestamp >= s[j].timestamp }

reverse(s) == [i \in DOMAIN s |-> s[Len(s) + 1 - i]]

\* the lists get_messages can return
get_messages(t, group_id, limit, before) ==
    { reverse(Take(s, limit)) : s \in OrderByTimestampDesc(Selected(t, group_id, before)) }

db_get_messages ==
    \E g \in SessionGroups, limit \in 0..MaxLimit,
       before \in { <<>> } \cup { <<ts>> : ts \in 0..MaxClock } :
        \E rows \in get_messages(tables, g, limit, before) :
            /\ reply' = Reply("get_messages", g, limit, before, rows)
            /\ UNCHANGED <<tables, foreign_keys, now, orch_vars, mem_vars, search_vars,
                           adapter_vars, runtime_vars, ws_vars, mention_vars, extra_vars>>

\* initialize: the connection is opened and the schema created; the pragma is
\* never set, so foreign_keys has the default of the SQLite library in use
SessionInit ==
    /\ OrchestratorIdle
    /\ MemoryIdle
    /\ SearchIdle
    /\ AdapterIdle
    /\ RuntimeIdle
    /\ BroadcasterIdle
    /\ MentionIdle
    /\ tables = [groups |-> {}, group_members |-> {}, messages |-> <<>>]
    /\ foreign_keys \in BOOLEAN
    /\ now = 0
    /\ reply = Reply("none", "", 0, <<>>, <<>>)
    /\ ExtraIdle

SessionNext ==
    \/ db_create_group
    \/ db_add_member
    \/ tick
    \/ db_save_message
    \/ db_delete_group
    \/ db_get_messages

SessionSpec == SessionInit /\ [][SessionNext]_vars

\* =================================================================
\* WebSocketManager
\* =================================================================
\* broadcasts of one behaviour
MaxBroadcasts == 2

Sockets == {"w1", "w2"}

SocketGroups == {"g1", "g2"}

\* the events broadcast_message carries for the Orchestrator
MessageEvents == {"agent_message", "turn_log", "system_message"}

\* connections is a dict: its items, in insertion order
Item(group_id, sockets) == [group_id |-> group_id, sockets |-> sockets]

Keys(conns) == { conns[k].group_id : k \in DOMAIN conns }

Connected(conns) == UNION { Range(conns[k].sockets) : k \in DOMAIN conns }

\* an event of a turn of of_group was sent to a socket in the list of to_group
Delivery(type, of_group, to_group) ==
    [type |-> type, of_group |-> of_group, to_group |-> to_group]

Broadcasted(kind, group_id, sent, failed, raised) ==
    [kind |-> kind, group_id |-> group_id, sent |-> sent, failed |-> failed,
     raised |-> raised]

\* connect: setdefault and append
connect(conns, ws, group_id) ==
    IF group_id \in Keys(conns)
    THEN [k \in DOMAIN conns |->
            IF conns[k].group_id = group_id
            THEN Item(group_id, Append(conns[k].sockets, ws))
            ELSE conns[k]]
    ELSE Append(conns, Item(group_id, <<ws>>))

\* disconnect of every socket of `gone` from the list of group_id: each call
\* filters the list, the one that empties it deletes the key
disconnect(conns, gone, group_id) ==
    LET kept == [k \in DOMAIN conns |->
                    IF conns[k].group_id = group_id
                    THEN Item(group_id, SelectSeq(conns[k].sockets, LAMBDA w : w \notin gone))
                    ELSE conns[k]]
    IN  SelectSeq(kept, LAMBDA item : item.sockets # <<>>)

\* a client opens /ws/{group_id}
ws_connect ==
    \E ws \in Sockets \ Connected(connections), g \in SocketGroups :
        /\ connections' = connect(connections, ws, g)
        /\ alive' = alive \cup {ws}
        /\ UNCHANGED <<deliveries, last_broadcast, broadcasts, orch_vars, mem_vars,
                       search_vars, adapter_vars, runtime_vars, mention_vars, extra_vars, session_vars>>

\* the peer goes away: send_text raises from now on
socket_closes ==
    \E ws \in alive :
        /\ alive' = alive \ {ws}
        /\ UNCHANGED <<connections, deliveries, last_broadcast, broadcasts, orch_vars,
                       mem_vars, search_vars, adapter_vars, runtime_vars, mention_vars, extra_vars,
                       session_vars>>

\* the endpoint's receive_json raises WebSocketDisconnect
endpoint_disconnect ==
    \E ws \in Connected(connections) \ alive :
        /\ \E k \in DOMAIN connections :
              /\ ws \in Range(connections[k].sockets)
              /\ connections' = disconnect(connections, {ws}, connections[k].group_id)
        /\ UNCHANGED <<alive, deliveries, last_broadcast, broadcasts, orch_vars, mem_vars,
                       search_vars, adapter_vars, runtime_vars, mention_vars, extra_vars, session_vars>>

\* the items whose sockets broadcast_message sends to
RecipientsAll(conns, group_id) == DOMAIN conns

Recipients(conns, group_id) ==
    { k \in DOMAIN conns : conns[k].group_id = group_id }

\* broadcast_message(group_id, data): send to every socket of the group,
\* then disconnect the ones whose send raised
broadcast_message ==
    \E g \in SocketGroups, type \in MessageEvents :
        /\ broadcasts < MaxBroadcasts
        /\ broadcasts' = broadcasts + 1
        /\ LET to     == Recipients(connections, g)
               sent   == UNION { Range(connections[k].sockets) \cap alive : k \in to }
               failed == UNION { Range(connections[k].sockets) \ alive : k \in to }
           IN  /\ deliveries' = deliveries \cup
                     { Delivery(type, g, connections[k].group_id) :
                           k \in { j \in to : Range(connections[j].sockets) \cap alive # {} } }
               /\ connections' = disconnect(connections, failed, g)
               /\ last_broadcast' = Broadcasted("message", g, sent, failed, FALSE)
        /\ UNCHANGED <<alive, orch_vars, mem_vars, search_vars, adapter_vars,
                       runtime_vars, mention_vars, extra_vars, session_vars>>

\* the loop of broadcast_status from item k on: for group_id, connections in
\* self.connections.items().  A disconnect that empties a list deletes its
\* key, and the next step of the dict iterator raises RuntimeError
\* ("dictionary changed size during iteration")
RECURSIVE status_loop(_, _, _, _)
status_loop(conns, k, sent, failed) ==
    IF k > Len(conns)
    THEN [connections |-> conns, sent |-> sent, failed |-> failed, raised |-> FALSE]
    ELSE LET ok    == Range(conns[k].sockets) \cap alive
             bad   == Range(conns[k].sockets) \ alive
             after == disconnect(conns, bad, conns[k].group_id)
         IN  IF Len(after) < Len(conns)
             THEN [connections |-> after, sent |-> sent \cup ok,
                   failed |-> failed \cup bad, raised |-> TRUE]
             ELSE status_loop(after, k + 1, sent \cup ok, failed \cup bad)

GroupOf(conns, ws) ==
    conns[CHOOSE k \in DOMAIN conns : ws \in Range(conns[k].sockets)].group_id

\* broadcast_status(agent_id, data), called by _emit_status for an agent that
\* is invoked in a turn of group g
broadcast_status ==
    \E g \in SocketGroups :
        /\ broadcasts < MaxBroadcasts
        /\ broadcasts' = broadcasts + 1
        /\ LET done == status_loop(connections, 1, {}, {})
           IN  /\ deliveries' = deliveries \cup
                     { Delivery("agent_status", g, GroupOf(connections, w)) : w \in done.sent }
               /\ connections' = done.connections
               /\ last_broadcast' = Broadcasted("status", g, done.sent, done.failed, done.raised)
        /\ UNCHANGED <<alive, orch_vars, mem_vars, search_vars, adapter_vars,
                       runtime_vars, mention_vars, extra_vars, session_vars>>

BroadcasterInit ==
    /\ OrchestratorIdle
    /\ MemoryIdle
    /\ SearchIdle
    /\ AdapterIdle
    /\ RuntimeIdle
    /\ MentionIdle
    /\ SessionIdle
    /\ BroadcasterIdle
    /\ ExtraIdle

BroadcasterNext ==
    \/ ws_connect
    \/ socket_closes
    \/ endpoint_disconnect
    \/ broadcast_message
    \/ broadcast_status

BroadcasterSpec == BroadcasterInit /\ [][BroadcasterNext]_vars

\* =================================================================
\* MemoryStore.save_memory under concurrent turns
\* =================================================================
\* most save_memory calls of a run
MaxSaves == 3

\* the tasks that call save_memory: execute_turn of two messages, each
\* started with asyncio.create_task on the one event loop of the process
SaveTasks == {"t1", "t2"}

StoreSessions == {"g1", "g2"}

\* the session_id a MemoryEntry carries when it is handed to save_memory
GivenSessionIds == {"", "g1", "g2"}

\* MemoryEntry, as far as save_memory and the file are concerned
StoreEntry(id, session_id) == [id |-> id, session_id |-> session_id]

\* e.model_dump(mode="json"): the dict written to the file
model_dump(e) == [id |-> e.id, session_id |-> e.session_id]

\* MemoryEntry.model_validate(d): the entry read back from a dict of the file
model_validate(d) == StoreEntry(d.id, d.session_id)

\* _load_entries is a coroutine with no await in its body: open and json.load
\* block, so the task that awaits it keeps the event loop until it returns
LoadSuspendsAlways ==
    TRUE

LoadSuspends ==
    FALSE

Saver(at, session_id, memory, entries) ==
    [pc |-> at, session_id |-> session_id, memory |-> memory, entries |-> entries]

NotSaving == Saver("idle", "", StoreEntry(0, ""), <<>>)

\* the task is between two suspension points of save_memory
HoldsLoop(u) ==
    \/ savers[u].pc = "called"
    \/ savers[u].pc = "loaded" /\ ~LoadSuspends

\* the event loop can run a step of task t
CanRun(t) == \A u \in SaveTasks \ {t} : ~HoldsLoop(u)

\* save_memory, line 49: memory.session_id = session_id
save_memory ==
    \E t \in SaveTasks, session_id \in StoreSessions, given \in GivenSessionIds :
       /\ savers[t].pc = "idle"
       /\ CanRun(t)
       /\ Len(save_calls) < MaxSaves
       /\ LET id == Len(save_calls) + 1
          IN  /\ savers' = [savers EXCEPT ![t] =
                               Saver("called", session_id, StoreEntry(id, session_id), <<>>)]
              /\ save_calls' = Append(save_calls,
                                  [id |-> id, task |-> t, given |-> given,
                                   session_id |-> session_id])
       /\ UNCHANGED <<files, context_vars, orch_vars, mem_vars, search_vars,
                      adapter_vars, runtime_vars, ws_vars, mention_vars, session_vars>>

\* _load_entries: the whole file, each dict validated (no file: no entries)
load_entries(session_id) ==
    [i \in DOMAIN files[session_id] |-> model_validate(files[session_id][i])]

\* save_memory, line 52: entries = await self._load_entries(session_id)
save_memory_loads ==
    \E t \in SaveTasks :
       /\ savers[t].pc = "called"
       /\ CanRun(t)
       /\ savers' = [savers EXCEPT ![t].pc = "loaded",
                                   ![t].entries = load_entries(savers[t].session_id)]
       /\ UNCHANGED <<files, save_calls, context_vars, orch_vars, mem_vars, search_vars,
                      adapter_vars, runtime_vars, ws_vars, mention_vars, session_vars>>

\* _write_entries: the file is rewritten with the dumps of the list
write_entries(entries) ==
    [i \in DOMAIN entries |-> model_dump(entries[i])]

\* save_memory, lines 53-54: entries.append(memory); _write_entries(...)
save_memory_writes ==
    \E t \in SaveTasks :
       /\ savers[t].pc = "loaded"
       /\ CanRun(t)
       /\ files' = [files EXCEPT ![savers[t].session_id] =
                       write_entries(Append(savers[t].entries, savers[t].memory))]
       /\ savers' = [savers EXCEPT ![t] = NotSaving]
       /\ UNCHANGED <<save_calls, context_vars, orch_vars, mem_vars, search_vars,
                      adapter_vars, runtime_vars, ws_vars, mention_vars, session_vars>>

\* MemoryStore.get_all_memories
store_get_all_memories(session_id) ==
    load_entries(session_id)

StoreInit ==
    /\ OrchestratorIdle
    /\ MemoryIdle
    /\ SearchIdle
    /\ AdapterIdle
    /\ RuntimeIdle
    /\ BroadcasterIdle
    /\ MentionIdle
    /\ SessionIdle
    /\ ContextIdle
    /\ files = [s \in StoreSessions |-> <<>>]
    /\ savers = [t \in SaveTasks |-> NotSaving]
    /\ save_calls = <<>>

StoreNext ==
    \/ save_memory
    \/ save_memory_loads
    \/ save_memory_writes

StoreSpec == StoreInit /\ [][StoreNext]_vars

\* =================================================================
\* ContextBuilder.build_input
\* =================================================================
\* longest roster (group_agent_ids) of a build_input call
MaxRoster == 2

\* the ids a roster or the Registry can hold
AgentIds == Registered

\* the rows of the session's messages table, oldest first
Histories == { <<>>, <<"m1">>, <<"m1", "m2">> }

\* AgentRegistry.get_agent raises KeyError for an id it does not hold
get_agent(agents, agent_id) ==
    IF agent_id \in agents
    THEN [kind |-> "profile", agent_id |-> agent_id]
    ELSE [kind |-> "KeyError", agent_id |-> agent_id]

\* the peers loop: every roster id but the agent's own is looked up
PeerLookups(agents, agent_id, group_agent_ids) ==
    LET others == SelectSeq(group_agent_ids, LAMBDA aid : aid # agent_id)
    IN  [i \in DOMAIN others |-> get_agent(agents, others[i])]

\* build_input: the agent's own profile, the peer list, the history; a
\* KeyError of get_agent is not caught
build_input(agents, agent_id, group_agent_ids, rows) ==
    LET profile == get_agent(agents, agent_id)
        lookups == PeerLookups(agents, agent_id, group_agent_ids)
        failed  == { i \in DOMAIN lookups : lookups[i].kind = "KeyError" }
    IN  IF profile.kind = "KeyError" THEN profile
        ELSE IF failed # {}
        THEN lookups[CHOOSE i \in failed : \A j \in failed : i <= j]
        ELSE [kind     |-> "AgentInput",
              agent_id |-> agent_id,
              peers    |-> [i \in DOMAIN lookups |-> lookups[i].agent_id],
              messages |-> get_truncated_history(rows, HistoryLimit)]

ContextInit ==
    /\ OrchestratorIdle
    /\ MemoryIdle
    /\ SearchIdle
    /\ AdapterIdle
    /\ RuntimeIdle
    /\ BroadcasterIdle
    /\ MentionIdle
    /\ SessionIdle
    /\ StoreIdle
    /\ registry \in SUBSET AgentIds
    /\ request \in [agent_id : AgentIds,
                    group_agent_ids : Seqs(AgentIds, MaxRoster),
                    history : Histories]
    /\ built = <<>>

build_input_returns ==
    /\ built = <<>>
    /\ built' = build_input(registry, request.agent_id, request.group_agent_ids,
                            request.history)
    /\ UNCHANGED <<registry, request, store_vars, orch_vars, mem_vars, search_vars,
                   adapter_vars, runtime_vars, ws_vars, mention_vars, session_vars>>

ContextNext ==
    build_input_returns

ContextSpec == ContextInit /\ [][ContextNext]_vars

\* =================================================================
\* Properties
\* =================================================================
Turns == DOMAIN turns

Failed(r) == r.kind \in {"exception", "timeout"}

\* the reply of slot `slot` of `phase` of turn t is a row of the messages table
Persisted(t, phase, slot) ==
    \E i \in DOMAIN messages :
        /\ messages[i].author_type = "agent"
        /\ messages[i].turn_id = t
        /\ messages[i].phase = phase
        /\ messages[i].slot = slot

\* an agent_message event of turn t for the agent went to the group
Broadcast(t, agent_id) ==
    \E i \in DOMAIN events :
        /\ events[i].type = "agent_message"
        /\ events[i].turn_id = t
        /\ events[i].agent_id = agent_id

MessagesOf(t, phase) ==
    { i \in DOMAIN messages : /\ messages[i].author_type = "agent"
                              /\ messages[i].turn_id = t
                              /\ messages[i].phase = phase }

AuthorsOf(t, phase) == { messages[i].author_id : i \in MessagesOf(t, phase) }

\* the Phase-A loop of turn t has run to its end
PhaseADone(t) ==
    \/ t < cur
    \/ t = cur /\ pc \in {"phaseB", "gatherB", "loopB", "chain", "done"}
    \/ t = cur /\ Len(turns[t].may_results) > 0

\* the Phase-B loop of turn t has run to its end
PhaseBDone(t) ==
    \/ t < cur
    \/ t = cur /\ pc \in {"chain", "done"}

\* ---------------------------------------------------------------- C1
\* C1 (as claimed): for every Turn created, by on_new_message or by
\* execute_turn, must_reply and may_reply are disjoint and each is a subset of
\* the group's agent members.
C1_MustMayPartitionMembers ==
    \A t \in Turns :
        /\ Range(turns[t].must_reply_agents) \cap Range(turns[t].may_reply_agents) = {}
        /\ Range(turns[t].must_reply_agents) \subseteq Range(turns[t].group_agent_ids)
        /\ Range(turns[t].may_reply_agents) \subseteq Range(turns[t].group_agent_ids)

\* ---------------------------------------------------------------- C2
\* C2 (as claimed): the number of agent messages persisted with turn_id = t is
\* at most max_responders.
C2_TurnMessagesWithinQuota ==
    \A t \in Turns :
        Cardinality(MessagesOf(t, "A")) + Cardinality(MessagesOf(t, "B"))
            <= turns[t].max_responders

\* C2 (amended): only Phase B is quota-gated.  The number of may_reply
\* messages persisted with turn_id = t is at most max_responders minus the
\* number of distinct agents that replied in Phase A (and 0 if that is
\* negative); must_reply messages are not limited by max_responders.
C2_MayMessagesWithinRemainingQuota ==
    \A t \in Turns :
        Cardinality(MessagesOf(t, "B"))
            <= Max(0, turns[t].max_responders - Cardinality(AuthorsOf(t, "A")))

\* a turn whose may_reply list was cut to the quota and which filled the quota
C2_Witness ==
    \E t \in Turns :
        /\ PhaseBDone(t)
        /\ Len(turns[t].may_agents) < Len(turns[t].may_reply_agents)
        /\ Cardinality(MessagesOf(t, "B")) > 0
        /\ Cardinality(MessagesOf(t, "B")) =
              turns[t].max_responders - Cardinality(AuthorsOf(t, "A"))

\* ---------------------------------------------------------------- C3
\* C3: along every chain of turns started by one human message, each turn's
\* chain_depth is at most chain_depth_limit, the first turn has depth 0 and
\* every chained turn has its parent's depth plus one.
C3_ChainDepthBoundedAndIncreasing ==
    \A t \in Turns :
        /\ turns[t].chain_depth <= config.chain_depth_limit
        /\ IF turns[t].parent = 0
           THEN turns[t].chain_depth = 0
           ELSE turns[t].chain_depth = turns[turns[t].parent].chain_depth + 1

\* a chained turn that sits exactly at the limit and has run to its end with a
\* follow-up request it may not honour
C3_Witness ==
    \E t \in Turns :
        /\ turns[t].parent # 0
        /\ turns[t].chain_depth = config.chain_depth_limit
        /\ t = cur /\ pc = "done"
        /\ NextMentions(turns[t].all_next_mentions, turns[t].replied_agents,
                        config.re_invoke_already_replied) # {}

\* ---------------------------------------------------------------- C4
\* C4: within a turn, no may_reply invocation has started unless every
\* must_reply invocation of the turn has resolved (output, exception or
\* timeout) and every Phase-A output has been persisted.
C4_PhaseAPrecedesPhaseB ==
    \A t \in Turns :
        Len(turns[t].may_results) > 0 =>
            \A i \in DOMAIN turns[t].must_results :
                /\ turns[t].must_results[i].kind # "running"
                /\ turns[t].must_results[i].kind = "output" => Persisted(t, "A", i)

\* Phase B is running after a Phase A of two invocations, one of which
\* failed and one of which replied
C4_Witness ==
    \E t \in Turns :
        /\ \E i \in DOMAIN turns[t].may_results : turns[t].may_results[i].kind = "running"
        /\ \E i, j \in DOMAIN turns[t].must_results :
              /\ Failed(turns[t].must_results[i])
              /\ turns[t].must_results[j].kind = "output"

\* ---------------------------------------------------------------- C5
Pos(order, slot) == CHOOSE k \in DOMAIN order : order[k] = slot

SamePhase(i, j) ==
    /\ messages[i].author_type = "agent"
    /\ messages[j].author_type = "agent"
    /\ messages[i].turn_id = messages[j].turn_id
    /\ messages[i].phase = messages[j].phase

OrderOf(i) ==
    IF messages[i].phase = "A"
    THEN turns[messages[i].turn_id].must_order
    ELSE turns[messages[i].turn_id].may_order

ResultsOf(i) ==
    IF messages[i].phase = "A"
    THEN turns[messages[i].turn_id].must_results
    ELSE turns[messages[i].turn_id].may_results

\* C5 (as claimed): within one phase of a turn, the replies are persisted in
\* the order in which their invocations completed.
C5_PersistedInCompletionOrder ==
    \A i, j \in DOMAIN messages :
        (i < j /\ SamePhase(i, j)) =>
            Pos(OrderOf(i), messages[i].slot) < Pos(OrderOf(j), messages[j].slot)

\* C5 (amended): within one phase of a turn, the replies are persisted only
\* after every invocation of the phase has resolved, and in the order in which
\* the agents are listed in must_reply / may_reply (the order the invocations
\* were started in), whatever the order they completed in.
C5_PersistedInStartOrder ==
    /\ \A i, j \in DOMAIN messages :
          (i < j /\ SamePhase(i, j)) => messages[i].slot < messages[j].slot
    /\ \A i \in DOMAIN messages :
          messages[i].author_type = "agent" =>
              \A k \in DOMAIN ResultsOf(i) : ResultsOf(i)[k].kind # "running"

\* two replies of one phase persisted although the later-listed agent
\* completed first
C5_Witness ==
    \E i, j \in DOMAIN messages :
        /\ i < j
        /\ SamePhase(i, j)
        /\ Pos(OrderOf(i), messages[i].slot) > Pos(OrderOf(j), messages[j].slot)

\* ---------------------------------------------------------------- C6
\* the outputs of turn t that the loops keep: every Phase-A output, and every
\* Phase-B output with should_respond
KeptA(t) == { i \in DOMAIN turns[t].must_results : turns[t].must_results[i].kind = "output" }

KeptB(t) == { i \in DOMAIN turns[t].may_results :
                 /\ turns[t].may_results[i].kind = "output"
                 /\ turns[t].may_results[i].should_respond }

KeptMentions(t) ==
    UNION ( { turns[t].must_results[i].next_mentions : i \in KeptA(t) }
            \cup { turns[t].may_results[i].next_mentions : i \in KeptB(t) } )

KeptAuthors(t) ==
    { turns[t].must_reply_agents[i] : i \in KeptA(t) }
    \cup { turns[t].may_agents[i] : i \in KeptB(t) }

\* C6: a chained turn has issued an invocation only if every invocation of its
\* parent has resolved, every kept Phase-A and Phase-B output of the parent is
\* persisted, and the chained turn's must_reply is exactly the next_mentions
\* collected from all those outputs (less the agents that replied, unless
\* re_invoke_already_replied).
C6_ChainAfterParentPersisted ==
    \A t \in Turns :
        (turns[t].parent # 0 /\ Len(turns[t].must_results) > 0) =>
            LET p == turns[t].parent
            IN  /\ \A i \in DOMAIN turns[p].must_results :
                      turns[p].must_results[i].kind # "running"
                /\ \A i \in DOMAIN turns[p].may_results :
                      turns[p].may_results[i].kind # "running"
                /\ \A i \in KeptA(p) : Persisted(p, "A", i)
                /\ \A i \in KeptB(p) : Persisted(p, "B", i)
                /\ Range(turns[t].must_reply_agents) =
                      NextMentions(KeptMentions(p), KeptAuthors(p),
                                   config.re_invoke_already_replied)

\* a chained turn is invoking after a parent that kept a Phase-A and a
\* Phase-B output
C6_Witness ==
    \E t \in Turns :
        /\ turns[t].parent # 0
        /\ \E i \in DOMAIN turns[t].must_results : turns[t].must_results[i].kind = "running"
        /\ KeptA(turns[t].parent) # {}
        /\ KeptB(turns[t].parent) # {}

\* ---------------------------------------------------------------- C7
\* C7: a failed invocation (exception or timeout) never makes the turn raise,
\* and once the loop of a phase that had a failed invocation has ended, every
\* other invocation of that phase that returned a kept output has its reply
\* persisted and broadcast.  (A failing save_message is C8's case: it alone
\* makes the turn raise.)
C7_InvocationFailureIsolated ==
    /\ raised_by # "invoke_one"
    /\ pc = "raised" => raised_by = "save_message"
    /\ \A t \in Turns :
          /\ (PhaseADone(t) /\ \E i \in DOMAIN turns[t].must_results :
                                   Failed(turns[t].must_results[i])) =>
                \A j \in KeptA(t) :
                    /\ Persisted(t, "A", j)
                    /\ Broadcast(t, turns[t].must_reply_agents[j])
          /\ (PhaseBDone(t) /\ \E i \in DOMAIN turns[t].may_results :
                                   Failed(turns[t].may_results[i])) =>
                \A j \in KeptB(t) :
                    /\ Persisted(t, "B", j)
                    /\ Broadcast(t, turns[t].may_agents[j])

\* Phase A had a timeout and a reply, the reply is persisted, and the turn
\* went on to invoke Phase B
C7_Witness ==
    \E t \in Turns :
        /\ \E i \in DOMAIN turns[t].must_results : turns[t].must_results[i].kind = "timeout"
        /\ \E j \in KeptA(t) : Persisted(t, "A", j)
        /\ Len(turns[t].may_results) > 0

\* ---------------------------------------------------------------- C8
\* C8 (as claimed): if save_message raises for one agent's reply, the replies
\* of the other agents of that turn that returned an output (with
\* should_respond) are still persisted and broadcast.
C8_PersistFailureIsolated ==
    (pc = "raised" /\ raised_by = "save_message") =>
        LET t == cur
            inB == Len(turns[t].may_results) > 0
        IN  /\ \A j \in KeptA(t) :
                  ((inB \/ j # idx) /\ turns[t].must_results[j].should_respond) =>
                      /\ Persisted(t, "A", j)
                      /\ Broadcast(t, turns[t].must_reply_agents[j])
            /\ \A j \in KeptB(t) :
                  j # idx =>
                      /\ Persisted(t, "B", j)
                      /\ Broadcast(t, turns[t].may_agents[j])

\* ---------------------------------------------------------------- C9
\* the agent has an invocation in turn t that returned an output
HasOutput(t, agent_id) ==
    \/ \E i \in DOMAIN turns[t].must_results :
          /\ turns[t].must_reply_agents[i] = agent_id
          /\ turns[t].must_results[i].kind = "output"
    \/ \E i \in DOMAIN turns[t].may_results :
          /\ turns[t].may_agents[i] = agent_id
          /\ turns[t].may_results[i].kind = "output"

Silent(t, phase, slot, agent_id) ==
    /\ ~Persisted(t, phase, slot)
    /\ ~HasOutput(t, agent_id) =>
          /\ agent_id \notin turns[t].replied_agents
          /\ ~Broadcast(t, agent_id)
          /\ \A i \in DOMAIN messages : messages[i].turn_id = t =>
                                           messages[i].author_id # agent_id

\* C9: an invocation that timed out or raised has no persisted message; if
\* the agent has no other invocation in the turn that returned an output, the
\* agent has no message and no agent_message broadcast in the turn and is not
\* in replied_agents; and the turn's next_mentions come only from outputs.
C9_FailedInvocationContributesNothing ==
    \A t \in Turns :
        /\ \A i \in DOMAIN turns[t].must_results :
              Failed(turns[t].must_results[i]) =>
                  Silent(t, "A", i, turns[t].must_reply_agents[i])
        /\ \A i \in DOMAIN turns[t].may_results :
              Failed(turns[t].may_results[i]) =>
                  Silent(t, "B", i, turns[t].may_agents[i])
        /\ turns[t].all_next_mentions \subseteq KeptMentions(t)

\* a turn ran to its end in which one invocation timed out, another raised and
\* a third one's reply was persisted
C9_Witness ==
    \E t \in Turns :
        /\ PhaseBDone(t)
        /\ \E i \in DOMAIN turns[t].must_results : turns[t].must_results[i].kind = "timeout"
        /\ \E i \in DOMAIN turns[t].may_results : turns[t].may_results[i].kind = "exception"
        /\ \E i \in KeptA(t) : Persisted(t, "A", i)

\* ---------------------------------------------------------------- C10
ErrorLogged(t, agent_id) ==
    \E i \in DOMAIN events :
        /\ events[i].type = "turn_log"
        /\ events[i].turn_id = t
        /\ events[i].agent_id = agent_id
        /\ events[i].is_error

\* C10 (as claimed): every invocation of a turn that timed out or raised is
\* reported, once the loop of its phase has handled it, by a turn_log
\* broadcast for that agent and turn with is_error = true.
C10_FailedInvocationLogged ==
    \A t \in Turns :
        /\ PhaseADone(t) =>
              \A i \in DOMAIN turns[t].must_results :
                  Failed(turns[t].must_results[i]) =>
                      ErrorLogged(t, turns[t].must_reply_agents[i])
        /\ PhaseBDone(t) =>
              \A i \in DOMAIN turns[t].may_results :
                  Failed(turns[t].may_results[i]) =>
                      ErrorLogged(t, turns[t].may_agents[i])

\* ---------------------------------------------------------------- C14
\* C14: a step that on_new_message takes for a group that does not exist
\* leaves the messages table, the broadcast events, the turns (and with them
\* every invocation), the memory store, the summary, the daily log and the
\* adapters untouched, and ends the task.
C14_MissingGroupNoEffect ==
    [][ (pc = "scheduled" /\ pending.group_id \notin Groups) =>
            /\ pc' = "done"
            /\ UNCHANGED <<messages, events, turns, cur, config, aux_vars>> ]_vars

\* the task has returned for a message posted to the missing group: only the
\* route's own human message and user_message exist
C14_Witness ==
    /\ pc = "done"
    /\ turns = <<>>
    /\ Len(messages) = 1
    /\ Len(events) = 1

\* ---------------------------------------------------------------- C15
\* C15: in a turn with max_responders = 0 and a non-empty must_reply, an
\* invocation is issued for every must_reply agent, every one of them has
\* resolved once the Phase-A loop has ended and each output among them is a
\* row of the messages table, and Phase B invokes nobody.
C15_ZeroQuotaRunsMustOnly ==
    \A t \in Turns :
        (turns[t].max_responders = 0 /\ turns[t].must_reply_agents # <<>>) =>
            /\ turns[t].may_agents = <<>>
            /\ turns[t].may_results = <<>>
            /\ (t = cur /\ pc = "phaseA") \/
                   DOMAIN turns[t].must_results = DOMAIN turns[t].must_reply_agents
            /\ PhaseADone(t) =>
                   \A i \in DOMAIN turns[t].must_results :
                       /\ turns[t].must_results[i].kind # "running"
                       /\ turns[t].must_results[i].kind = "output" =>
                              Persisted(t, "A", i)

\* a finished turn with max_responders = 0 whose must_reply agent replied
\* while the group still had a may_reply agent
C15_Witness ==
    \E t \in Turns :
        /\ turns[t].max_responders = 0
        /\ turns[t].must_reply_agents # <<>>
        /\ turns[t].may_reply_agents # <<>>
        /\ PhaseBDone(t)
        /\ \E i \in KeptA(t) : Persisted(t, "A", i)

\* ---------------------------------------------------------------- C16
SystemNotice(t) ==
    \E i \in DOMAIN events :
        events[i].type = "system_message" /\ events[i].turn_id = t

CarriesNextMentions(t) ==
    \E i \in DOMAIN messages :
        /\ messages[i].author_type = "agent"
        /\ messages[i].turn_id = t
        /\ messages[i].next_mentions # {}

\* C16: with chain_depth_limit = 0 the message of an existing group gets
\* exactly one turn, no follow-up turn is ever opened, and when on_new_message
\* has returned and a persisted reply of that turn carried next_mentions the
\* chain-limit system_message has been broadcast.
C16_ZeroLimitOneTurnThenNotice ==
    config.chain_depth_limit = 0 =>
        /\ Len(turns) <= 1
        /\ cur # 0 => Len(turns) = 1
        /\ (pc = "done" /\ cur # 0 /\ CarriesNextMentions(cur)) => SystemNotice(cur)

\* on_new_message has returned with chain_depth_limit = 0 after a reply that
\* named a next agent
C16_Witness ==
    /\ config.chain_depth_limit = 0
    /\ pc = "done"
    /\ cur = 1
    /\ CarriesNextMentions(1)
    /\ SystemNotice(1)

\* ---------------------------------------------------------------- C17
HasSentinel(parsed_mentions) == "@all" \in Range(parsed_mentions)

\* C17: the Turn on_new_message builds for resolved mentions m in a group
\* with agent set A has must = A and may = {} when m holds the broadcast
\* sentinel, and otherwise must = m \cap A and may = A \ must (so must = {}
\* and may = A when m names no member).
C17_MentionsPartitionMembers ==
    [][ (pc = "scheduled" /\ pending.group_id \in Groups) =>
            LET m    == pending.mentions
                A    == Range(GroupAgents)
                t    == turns'[Len(turns')]
                must == Range(t.must_reply_agents)
                may  == Range(t.may_reply_agents)
            IN  /\ Len(turns') = Len(turns) + 1
                /\ t.chain_depth = 0
                /\ HasSentinel(m) => must = A /\ may = {}
                /\ ~HasSentinel(m) => must = Range(m) \cap A /\ may = A \ must
                /\ (~HasSentinel(m) /\ Range(m) \cap A = {}) => must = {} /\ may = A ]_vars

\* the first Turn of a message whose only mention names no member
C17_Witness ==
    /\ pc = "phaseA"
    /\ Len(turns) = 1
    /\ turns[1].must_reply_agents = <<>>
    /\ turns[1].may_reply_agents = GroupAgents

\* ---------------------------------------------------------------- C18
Terminated == pc \in {"done", "raised"}

\* C18: when every invocation resolves, the on_new_message task terminates
\* (returns or raises), and it never runs more than chain_depth_limit + 1
\* turns.
C18_TerminatesWithinChainLimit ==
    /\ <>Terminated
    /\ [](Len(turns) <= config.chain_depth_limit + 1)

\* the task has returned after running chain_depth_limit + 1 turns, the
\* last of them a chained one
C18_Witness ==
    /\ pc = "done"
    /\ config.chain_depth_limit >= 1
    /\ Len(turns) = config.chain_depth_limit + 1

\* ---------------------------------------------------------------- C11
\* a marker of the given kind: its opener with a closer somewhere after it
HasMarker(c, opener) ==
    \E i, j \in DOMAIN c : i < j /\ c[i] = opener /\ c[j] = Close

\* C11 (as claimed): the content of a persisted agent message holds no MEMORY
\* marker and no PERSONAL_LOG marker, whatever the payload of the markers in
\* the reply was.
C11_NoMarkerPersisted ==
    mem_pc = "saved" =>
        /\ ~HasMarker(stored_content, OpenMemory)
        /\ ~HasMarker(stored_content, OpenLog)

\* ---------------------------------------------------------------- C12
\* C12 (as claimed): whatever save_memory calls have been made, the stored
\* session summary is the summary rebuilt from all entries of the session
\* file.
C12_SummaryIsProjection ==
    summary = SummaryText(store)

\* ---------------------------------------------------------------- C13
\* the score the claim gives the entry at position i of the session file, in
\* twentieths: 0.5 * |Q \cap C| + 0.5 * importance
C13_Score(i) ==
    10 * Cardinality(words(query) \cap words(store[i].content)) + store[i].importance

\* C13: search_memory returns at most top_k entries of the session, each of
\* positive score, in descending order of score with equal scores in
\* insertion order, and no entry left out scores higher than one returned.
C13_SearchReturnsTopK ==
    mem_pc = "searched" =>
        /\ Len(found) <= top_k
        /\ \A i \in DOMAIN found : found[i] \in DOMAIN store /\ C13_Score(found[i]) > 0
        /\ \A i, j \in DOMAIN found :
               i < j => \/ C13_Score(found[i]) > C13_Score(found[j])
                        \/ /\ C13_Score(found[i]) = C13_Score(found[j])
                           /\ found[i] < found[j]
        /\ \A o \in DOMAIN store \ Range(found) :
               \A i \in DOMAIN found : C13_Score(o) <= C13_Score(found[i])

\* a search that filled top_k = 2 with two entries of equal score, one of
\* them matching a query word, left out an entry of positive score and
\* dropped one of score 0
C13_Witness ==
    /\ mem_pc = "searched"
    /\ top_k = 2
    /\ Len(found) = 2
    /\ Len(store) = 3
    /\ query # <<>>
    /\ \E o \in DOMAIN store \ Range(found) : C13_Score(o) > 0

\* ---------------------------------------------------------------- C19
\* the three failures the adapter contract names
FailureCase(p) ==
    \/ p.ending = "timeout"
    \/ p.ending = "not_found"
    \/ p.ending = "completed" /\ p.returncode # 0

ErrorMarked(content) ==
    content # <<>> /\ content[1] \in {"[CLI Error]", "[Timeout]", "[Error]"}

\* C19 (as claimed): when the subprocess of any of the three adapters times
\* out, exits non-zero or cannot be found, invoke raises nothing and returns
\* an AgentOutput whose content starts with a bracketed error marker and
\* whose should_respond is true.
C19_AdapterFailuresAreErrorOutputs ==
    (result.kind # "none" /\ FailureCase(proc)) =>
        /\ result.kind = "output"
        /\ ErrorMarked(result.content)
        /\ result.should_respond

\* ---------------------------------------------------------------- C20
\* C20 (as claimed): in each of the three failure cases the AgentOutput of the
\* Claude and the Cursor adapter carries execution_meta with is_error = true,
\* so that the turn_log broadcast for it reports is_error = true.
C20_AdapterFailuresCarryIsError ==
    (result.kind # "none" /\ proc.cli_type \in {"claude", "cursor"} /\ FailureCase(proc)) =>
        /\ result.meta = "err"
        /\ TurnLog(result, "a1", 1) = <<Event("turn_log", 1, "a1", TRUE)>>

\* ---------------------------------------------------------------- C21
\* C21 (as claimed): once an invocation has ended - by a normal return, an
\* adapter exception or the cancellation by the per-turn timeout - every
\* agent for which "analyzing" was emitted has also had a "done" or an
\* "error" emitted.
C21_AnalyzingIsClosed ==
    \A a \in Agents :
        (rt_pc[a] = "resolved" /\ "analyzing" \in Range(statuses[a]))
            => \/ "done" \in Range(statuses[a])
               \/ "error" \in Range(statuses[a])

\* ---------------------------------------------------------------- C22
\* C22 (as claimed): once an invocation has resolved as timed out, by the
\* per-turn timeout or by the adapter's own, the subprocess started for it is
\* no longer running.
C22_TimedOutChildNotRunning ==
    \A a \in Agents :
        resolution[a] \in {"TimeoutError", "timeout_output"} => child[a] # "running"

\* ---------------------------------------------------------------- C23
\* what the SKIP and NEXT_MENTIONS steps of the invoked adapter worked on: the
\* JSON result for Claude and Cursor, the stripped stdout for the generic one
ParsedContent(p) ==
    IF p.cli_type = "generic" THEN raw_output(p.stdout) ELSE json_result(p.stdout)

\* the subprocess completed and its output went through _parse_output
Parsed(p) ==
    /\ p.ending = "completed"
    /\ p.cli_type = "generic" => raw_output(p.stdout) # <<>> \/ p.stderr = <<>>
    /\ p.cli_type # "generic" => p.returncode = 0

Skipped(content) == strip(content) # <<>> /\ Head(strip(content)) = "SKIP"

\* C23 (as claimed): when the output of an agent carries several
\* NEXT_MENTIONS markers (and is not a SKIP), the parsed next_mentions is the
\* array of the last marker and the returned content holds no marker.
C23_LastMarkerWins ==
    (result.kind = "output" /\ Parsed(proc) /\ ~Skipped(ParsedContent(proc))
        /\ Cardinality(MarkersAt(ParsedContent(proc))) > 1)
    => LET c == ParsedContent(proc)
       IN  /\ result.next_mentions
                 = MarkerArray(c[CHOOSE i \in MarkersAt(c) : \A k \in MarkersAt(c) : k <= i])
           /\ \A i \in DOMAIN result.content : result.content[i] \notin NextMarkers

\* ---------------------------------------------------------------- C24
\* C24 (as claimed): for every adapter, an output whose content, stripped,
\* equals SKIP or begins with SKIP is parsed to should_respond = false, empty
\* content and empty next_mentions; any other content to should_respond = true.
C24_SkipPrefixSilences ==
    (result.kind = "output" /\ Parsed(proc))
    => IF Skipped(ParsedContent(proc))
       THEN /\ ~result.should_respond
            /\ result.content = <<>>
            /\ result.next_mentions = {}
       ELSE result.should_respond

\* ---------------------------------------------------------------- C25
\* the positions of the "@" that open a mention: at the start of the text or
\* after whitespace, and followed by something other than whitespace
MentionStarts(text) ==
    { i \in DOMAIN text :
        /\ text[i] = At
        /\ i = 1 \/ text[i - 1] = Space
        /\ i < Len(text) /\ text[i + 1] # Space }

\* the token of the mention opened at i: everything up to the next whitespace
TokenEnd(text, i) ==
    CHOOSE e \in i..Len(text) :
        /\ \A k \in (i + 1)..e : text[k] # Space
        /\ e = Len(text) \/ text[e + 1] = Space

TokenAt(text, i) == SubSeq(text, i + 1, TokenEnd(text, i))

\* what a token stands for: the sentinel, an agent id of the group, the first
\* group agent with that display name, or nothing ("")
Meaning(token) ==
    IF token \in { <<"all">>, <<AllLocalized>> } THEN "@all"
    ELSE IF Len(token) = 1 /\ token[1] \in Range(GroupAgents) THEN token[1]
    ELSE IF \E k \in DOMAIN GroupAgents : token = <<ProfileName[GroupAgents[k]]>>
         THEN GroupAgents[CHOOSE k \in DOMAIN GroupAgents :
                  /\ token = <<ProfileName[GroupAgents[k]]>>
                  /\ \A j \in 1..(k - 1) : token # <<ProfileName[GroupAgents[j]]>>]
    ELSE ""

\* the mention starts whose token stands for something, and the rank of one
\* among them
Resolved(text) == { i \in MentionStarts(text) : Meaning(TokenAt(text, i)) # "" }

Rank(text, i) == Cardinality({ j \in Resolved(text) : j <= i })

C26_DeleteCascades ==
    reply.call = "delete_group" =>
        /\ db_get_group(tables, reply.group_id) = {}
        /\ list_group_members(tables, reply.group_id) = {}
        /\ get_messages(tables, reply.group_id, MaxMessages, <<>>) = { <<>> }

\* ---------------------------------------------------------------- C27
\* the rows get_messages had to choose from
Candidates ==
    { tables.messages[i] : i \in { j \in DOMAIN tables.messages :
          /\ tables.messages[j].group_id = reply.group_id
          /\ reply.before # <<>> => tables.messages[j].timestamp < reply.before[1] } }

\* C27 (as claimed): get_messages(group_id, limit, before) returns only
\* messages of the group older than `before`, as many as there are up to
\* limit, namely the newest of them, oldest first; messages saved one after
\* another come back in the order they were saved.
C27_NewestPageInSaveOrder ==
    reply.call = "get_messages" =>
        /\ Range(reply.rows) \subseteq Candidates
        /\ Len(reply.rows) = IF Cardinality(Candidates) < reply.limit
                             THEN Cardinality(Candidates) ELSE reply.limit
        /\ \A r \in Range(reply.rows), m \in Candidates \ Range(reply.rows) :
               m.timestamp <= r.timestamp /\ m.id < r.id
        /\ \A i, j \in DOMAIN reply.rows :
               i < j => /\ reply.rows[i].timestamp <= reply.rows[j].timestamp
                        /\ reply.rows[i].id < reply.rows[j].id

\* ---------------------------------------------------------------- C28
\* C28 (as claimed): after a broadcast, by broadcast_message or by
\* broadcast_status, every subscriber whose send failed is out of its group's
\* list, every subscriber whose send succeeded is still in it, and the
\* broadcast has returned without raising.
C28_FailedSendsRemovedQuietly ==
    last_broadcast.kind # "none" =>
        /\ last_broadcast.failed \cap Connected(connections) = {}
        /\ last_broadcast.sent \subseteq Connected(connections)
        /\ ~last_broadcast.raised

\* ---------------------------------------------------------------- C29
\* C29 (as claimed): every event of a turn of group g - agent_message,
\* turn_log, agent_status, system_message - reaches only sockets registered
\* for g.
C29_EventsStayInGroup ==
    \A d \in deliveries : d.to_group = d.of_group

\* C29 (amended): the events sent with broadcast_message - agent_message,
\* turn_log, system_message - reach only sockets registered for g;
\* agent_status is sent with broadcast_status, which is not group-scoped.
C29_MessageEventsStayInGroup ==
    \A d \in deliveries : d.type \in MessageEvents => d.to_group = d.of_group

\* an event of one group was delivered while another group had a subscriber
C29_Witness ==
    /\ last_broadcast.kind = "message"
    /\ last_broadcast.sent # {}
    /\ \E k \in DOMAIN connections :
          /\ connections[k].group_id # last_broadcast.group_id
          /\ Range(connections[k].sockets) \cap alive # {}

\* ---------------------------------------------------------------- C30
\* C30 (as claimed): for every agent reply persisted in a turn, a turn_log
\* event with the turn_id and the agent_id of the reply has been broadcast to
\* the group, whichever adapter produced the reply.
C30_KeptReplyHasTurnLog ==
    \A i \in DOMAIN messages :
        messages[i].author_type = "agent" =>
            \E j \in DOMAIN events :
                /\ events[j].type = "turn_log"
                /\ events[j].turn_id = messages[i].turn_id
                /\ events[j].agent_id = messages[i].author_id

\* ---------------------------------------------------------------- C31
\* C31 (as claimed): a malformed MEMORY marker of a reply - a payload that is
\* not JSON, or one MemoryEntry cannot be built from - is skipped: marker
\* processing never ends with an exception, so the reply goes on to be
\* persisted.
C31_MalformedMarkerSkipped ==
    mem_pc # "raised"

\* ---------------------------------------------------------------- C32
\* Phase B of turn t has issued its invocations
PhaseBStarted(t) ==
    \/ t < cur
    \/ t = cur /\ pc \in {"gatherB", "loopB", "chain", "done"}
    \/ t = cur /\ Len(turns[t].may_results) > 0

\* the position of an agent in the group's member list
MemberIndex(a) == CHOOSE i \in DOMAIN GroupAgents : GroupAgents[i] = a

\* C32: Phase B invokes exactly the first q agents of may_reply, which is in
\* group-member order, where q is max_responders minus the number of agents
\* that replied in Phase A; it invokes nobody when q <= 0, and an agent that
\* answers SKIP is not replaced by a later may_reply agent.
C32_PhaseBInvokesFirstQ ==
    \A t \in Turns :
        LET may == turns[t].may_reply_agents
            q   == turns[t].max_responders - Cardinality(AuthorsOf(t, "A"))
        IN  /\ \A i, j \in DOMAIN may :
                   i < j => MemberIndex(may[i]) < MemberIndex(may[j])
            /\ PhaseBStarted(t) =>
                   /\ turns[t].may_agents = Take(may, Max(0, q))
                   /\ DOMAIN turns[t].may_results = DOMAIN turns[t].may_agents

\* a finished turn with quota for one of two may_reply agents: the first was
\* invoked and answered SKIP, the second was never invoked
C32_Witness ==
    \E t \in Turns :
        /\ PhaseBDone(t)
        /\ Len(turns[t].may_reply_agents) = 2
        /\ turns[t].max_responders - Cardinality(AuthorsOf(t, "A")) = 1
        /\ turns[t].may_agents = <<turns[t].may_reply_agents[1]>>
        /\ turns[t].may_results[1].kind = "output"
        /\ ~turns[t].may_results[1].should_respond
        /\ MessagesOf(t, "B") = {}

\* ---------------------------------------------------------------- C33
\* the agents with a reply of turn t in the messages table
Repliers(t) == AuthorsOf(t, "A") \cup AuthorsOf(t, "B")

\* C33: with re_invoke_already_replied = false, an agent that persisted a
\* reply in turn t is neither a must_reply nor a may_reply agent of the turn
\* chained directly from t, and so is invoked in neither phase of it, also
\* when a reply of t named it in next_mentions.
C33_RepliedNotReinvoked ==
    ~config.re_invoke_already_replied =>
        \A t \in Turns :
            turns[t].parent # 0 =>
                \A a \in Repliers(turns[t].parent) :
                    /\ a \notin Range(turns[t].must_reply_agents)
                    /\ a \notin Range(turns[t].may_reply_agents)
                    /\ a \notin Range(turns[t].may_agents)

\* a chained turn has run although a reply of its parent named an agent that
\* had replied in the parent
C33_Witness ==
    /\ ~config.re_invoke_already_replied
    /\ \E t \in Turns :
          /\ turns[t].parent # 0
          /\ PhaseBDone(t)
          /\ turns[turns[t].parent].all_next_mentions \cap Repliers(turns[t].parent) # {}

\* ---------------------------------------------------------------- C34
\* the save_memory calls on the session that have returned, in call order
Returned(session_id) ==
    SelectSeq(save_calls,
              LAMBDA c : /\ c.session_id = session_id
                         /\ \A t \in SaveTasks :
                               savers[t].pc = "idle" \/ savers[t].memory.id # c.id)

\* C34: whatever save_memory calls the tasks have made on a session,
\* get_all_memories returns exactly the entries of the calls that have
\* returned, each with session_id set to the session, in the order of the
\* calls: none is lost or overwritten.
C34_NoSaveLost ==
    \A s \in StoreSessions :
        store_get_all_memories(s) =
            [i \in DOMAIN Returned(s) |-> StoreEntry(Returned(s)[i].id, s)]

\* both tasks have saved to the same session, one of them an entry that came
\* with another session_id
C34_Witness ==
    \E s \in StoreSessions :
        /\ Len(store_get_all_memories(s)) >= 2
        /\ \E i, j \in DOMAIN Returned(s) :
              /\ Returned(s)[i].task # Returned(s)[j].task
              /\ Returned(s)[i].given # s

\* ---------------------------------------------------------------- C35
\* C35 (as claimed): build_input leaves the agent itself and every roster id
\* the Registry cannot resolve out of the peer list and still returns an
\* invocation record; it fails only when the agent's own profile is missing.
C35_UnresolvedPeersSkipped ==
    built # <<>> =>
        IF request.agent_id \notin registry
        THEN built.kind = "KeyError"
        ELSE /\ built.kind = "AgentInput"
             /\ built.peers =
                    SelectSeq(request.group_agent_ids,
                              LAMBDA aid : aid # request.agent_id /\ aid \in registry)

\* ---------------------------------------------------------------- C36
\* C36 (as claimed): within one turn each agent is invoked at most once -
\* no agent has two of the invocations issued in Phase A or in Phase B, nor
\* one in each - and has at most one message persisted, also when the
\* mentions name it several times.
C36_OneInvocationPerAgent ==
    \A t \in Turns :
        LET must == SubSeq(turns[t].must_reply_agents, 1, Len(turns[t].must_results))
            may  == SubSeq(turns[t].may_agents, 1, Len(turns[t].may_results))
        IN  /\ \A i, j \in DOMAIN must : must[i] = must[j] => i = j
            /\ \A i, j \in DOMAIN may : may[i] = may[j] => i = j
            /\ Range(must) \cap Range(may) = {}
            /\ \A i, j \in MessagesOf(t, "A") \cup MessagesOf(t, "B") :
                   messages[i].author_id = messages[j].author_id => i = j

\* ---------------------------------------------------------------- C37
\* C37 (as claimed): every agent message in the messages table of the group
\* is authored by an agent member of the group, and every invocation issued,
\* in the first turn or in a chained one, is for an agent member.
C37_RepliesByMembersOnly ==
    /\ \A i \in DOMAIN messages :
           messages[i].author_type = "agent" =>
               messages[i].author_id \in Range(GroupAgents)
    /\ \A t \in Turns :
           /\ \A i \in DOMAIN turns[t].must_results :
                  turns[t].must_reply_agents[i] \in Range(GroupAgents)
           /\ \A i \in DOMAIN turns[t].may_results :
                  turns[t].may_agents[i] \in Range(GroupAgents)

\* ---------------------------------------------------------------- C38
\* the output a persisted agent message was made from
OutputOf(i) ==
    IF messages[i].phase = "A"
    THEN turns[messages[i].turn_id].must_results[messages[i].slot]
    ELSE turns[messages[i].turn_id].may_results[messages[i].slot]

\* C38 (as claimed): every agent message persisted in a turn, in Phase A as
\* well as in Phase B, comes from an output with should_respond = true.
C38_NoSkipPersisted ==
    \A i \in DOMAIN messages :
        messages[i].author_type = "agent" => OutputOf(i).should_respond

\* C38 (amended): every agent message persisted in Phase B comes from an
\* output with should_respond = true, and a may_reply agent that answered
\* SKIP has no message of the turn, no agent_message event and no entry in
\* replied_agents; Phase A does not look at should_respond.
C38_NoSkipPersistedInPhaseB ==
    /\ \A i \in DOMAIN messages :
           (messages[i].author_type = "agent" /\ messages[i].phase = "B") =>
               OutputOf(i).should_respond
    /\ \A t \in Turns :
           \A k \in DOMAIN turns[t].may_results :
               LET out == turns[t].may_results[k]
               IN  (out.kind = "output" /\ ~out.should_respond) =>
                       /\ ~Persisted(t, "B", k)
                       /\ ~Broadcast(t, turns[t].may_agents[k])
                       /\ turns[t].may_agents[k] \notin turns[t].replied_agents

\* a finished turn in which one may_reply agent answered SKIP and another
\* one's reply was persisted
C38_Witness ==
    \E t \in Turns :
        /\ PhaseBDone(t)
        /\ MessagesOf(t, "B") # {}
        /\ \E k \in DOMAIN turns[t].may_results :
              /\ turns[t].may_results[k].kind = "output"
              /\ ~turns[t].may_results[k].should_respond

\* ---------------------------------------------------------------- C39
\* the next-mention set of turn t as execute_turn computes it after Phase B
NextOf(t) ==
    NextMentions(turns[t].all_next_mentions, turns[t].replied_agents,
                 config.re_invoke_already_replied)

\* execute_turn has returned from turn t without opening a follow-up turn
Stopped(t) == t = cur /\ pc = "done"

\* C39 (as claimed): a chain-limit system_message is broadcast at the end of
\* a turn only if the turn's next-mention set, after the removal of the
\* agents that replied, is non-empty and the chain could not continue.
C39_NoticeOnlyForPendingMentions ==
    \A t \in Turns :
        SystemNotice(t) => (NextOf(t) # {} /\ Stopped(t))

\* C39 (amended): a chain-limit system_message is broadcast at the end of a
\* turn exactly if the turn stopped the chain with chain_depth at or above
\* chain_depth_limit, whether or not its next-mention set is empty; a turn
\* below the limit broadcasts none.
C39_NoticeIffStoppedAtLimit ==
    \A t \in Turns :
        SystemNotice(t) <=>
            (Stopped(t) /\ turns[t].chain_depth >= config.chain_depth_limit)

\* a chained turn at the limit ended with the notice although none of its
\* replies asked for a follow-up, after a first turn below the limit that
\* broadcast none
C39_Witness ==
    /\ Len(turns) = 2
    /\ Stopped(2)
    /\ MessagesOf(2, "A") # {}
    /\ turns[2].all_next_mentions = {}
    /\ SystemNotice(2)
    /\ ~SystemNotice(1)

\* ---------------------------------------------------------------- C40
\* C40 (as claimed): in every invocation of a turn triggered by a human
\* message, in Phase A and in Phase B, the current message of the invocation
\* record - the last element of its message list - is that human message.
C40_CurrentIsTrigger ==
    \A t \in Turns :
        turns[t].trigger_source = "human" =>
            /\ Len(turns[t].must_results) > 0 =>
                   /\ turns[t].must_current # <<>>
                   /\ turns[t].must_current[1].author_type = "human"
            /\ Len(turns[t].may_results) > 0 =>
                   /\ turns[t].may_current # <<>>
                   /\ turns[t].may_current[1].author_type = "human"

====
